---- MODULE Spec2Model ----
(***************************************************************************)
(* Model of the synchronisation core of my_python_workspace:               *)
(*   fetchers/multi_source_fetcher.py   MultiSourceFetcher.fetch            *)
(*   utils/data_saver.py                filter / save / merge               *)
(*   utils/metadata_manager.py          the watermark store                 *)
(*   utils/missing_date_range_checker.py, utils/trading_day_checker.py      *)
(*   fetch_historical_data.py           one iteration of the main loop      *)
(*                                                                         *)
(* Calendar days are numbered 1..MaxDay (day 1 is START_DATE).  A row of a  *)
(* frame carries the day its date column parses to: save_dataframe writes   *)
(* '%Y-%m-%d' and every reader applies pd.to_datetime, which is a bijection *)
(* on days.  The watermark store holds strings that the resolver compares   *)
(* as strings, so a watermark keeps its format: see Ymd and StrGE.          *)
(***************************************************************************)
EXTENDS Integers, Sequences, FiniteSets, TLC

\* ------------------------------------------------------------------ bounds
\* Last calendar day of the model (day 1 is a Thursday: 3 and 4 are a weekend).
MaxDay == 5
\* Longest frame a provider or a caller hands over.
MaxBatch == 2
\* Days that rows of the merge-level specification may carry: 1..MergeDays.
MergeDays == 2
\* Most fetch calls made on one MultiSourceFetcher in the fetch-level specification.
MaxFetches == 2
\* The calls of update_last_date the processes of the save-level specification
\* make together.
MaxSaves == 2

\* ------------------------------------------------------------------ values
\* Python's None where a frame, a dict value or a tuple field is expected, and
\* where a source name is expected (FetchResult.source); a NaN cell of a frame;
\* a file that does not exist.
None == [py |-> "None"]
NoSource == "None"
NA == [nan |-> TRUE]
\* A cell of a numeric column holding x.
Num(x) == [num |-> x]
Absent == [exists |-> FALSE]

Days == 1..MaxDay
START_DATE == 1

\* The instruments of the store; the batch run of the model walks StockList.
Codes == {"000001", "600519"}
StockList == <<"000001">>
\* Names an instrument carries over time (a rename to *ST...).
Names == {"PingAn", "*ST_PingAn"}

\* Sequences over S of length at most n.
SeqsUpTo(S, n) == UNION {[1..k -> S] : k \in 0..n}

\* ------------------------------------------------------------------ fetcher
\* all_sources, in the insertion order of the dict.
AllSources == <<"baostock", "akshare", "yfinance">>
SourceNames == {AllSources[i] : i \in DOMAIN AllSources}

\* __init__: an unknown preferred_source is replaced by 'baostock'.
InitPreferred(p) == IF p \in SourceNames THEN p ELSE "baostock"

\* Mutant: the preferred source is put first and left in its place as well.
AttemptOrderPreferredTwice(pref) ==
    (IF pref \in SourceNames THEN <<pref>> ELSE <<>>) \o AllSources

\* fetch, lines 139-148: the preferred source, then the others in dict order.
AttemptOrder(pref) ==
    (IF pref \in SourceNames THEN <<pref>> ELSE <<>>)
        \o SelectSeq(AllSources, LAMBDA s : s # pref)

\* A DataFrame object holding rows, where None may stand instead of it.
Frame(rows) == [rows |-> rows]

\* FetchResult(data, source)
FetchResult(data, source) == [data |-> data, source |-> source]

\* df.insert(1, '股票名称', stock_name): the provider frames carry no name column.
InsertName(rows, stock_name) ==
    [i \in DOMAIN rows |->
        [date |-> rows[i].date, name |-> stock_name,
         volume |-> rows[i].volume, amount |-> rows[i].amount]]

\* What one provider does when called: raises, returns None, or returns a frame.
\* kind "raise" | "none" | "frame"; a frame with no rows is df.empty.
IsEmptyAnswer(a) == a.kind = "none" \/ (a.kind = "frame" /\ a.rows = <<>>)

\* The locals of fetch before the loop (lines 151-152), with the provider
\* invocations made so far; returned is set once a return statement ran.
FetchLocals(stats) ==
    [has_exception |-> FALSE, failed_sources |-> <<>>, calls |-> <<>>,
     source_stats |-> stats, returned |-> FALSE, result |-> FetchResult(None, NoSource)]

\* Mutant: an empty answer is treated like an error and the next source is tried.
TrySourceNoShortCircuit(acc, source_name, a, stock_name) ==
    LET called == [acc EXCEPT !.calls = Append(@, source_name)]
    IN  IF a.kind = "raise"
        THEN [called EXCEPT !.has_exception = TRUE,
                            !.failed_sources = Append(@, <<source_name, a.error>>)]
        ELSE IF ~IsEmptyAnswer(a)
        THEN [called EXCEPT !.source_stats[source_name] = @ + 1,
                            !.returned = TRUE,
                            !.result = FetchResult(Frame(InsertName(a.rows, stock_name)), source_name)]
        ELSE called

\* Mutant: the usage counter is bumped before the call, also when it raises.
TrySourceCountsAttempts(acc, source_name, a, stock_name) ==
    LET called == [acc EXCEPT !.calls = Append(@, source_name),
                              !.source_stats[source_name] = @ + 1]
    IN  IF a.kind = "raise"
        THEN [called EXCEPT !.has_exception = TRUE,
                            !.failed_sources = Append(@, <<source_name, a.error>>)]
        ELSE IF ~IsEmptyAnswer(a)
        THEN [called EXCEPT !.returned = TRUE,
                            !.result = FetchResult(Frame(InsertName(a.rows, stock_name)), source_name)]
        ELSE [called EXCEPT !.returned = TRUE, !.result = FetchResult(None, "no_data")]

\* One pass through the body of the for loop (lines 155-179).
TrySource(acc, source_name, a, stock_name) ==
    LET called == [acc EXCEPT !.calls = Append(@, source_name)]
    IN  IF a.kind = "raise"
        THEN [called EXCEPT !.has_exception = TRUE,
                            !.failed_sources = Append(@, <<source_name, a.error>>)]
        ELSE IF ~IsEmptyAnswer(a)
        THEN [called EXCEPT !.source_stats[source_name] = @ + 1,
                            !.returned = TRUE,
                            !.result = FetchResult(Frame(InsertName(a.rows, stock_name)), source_name)]
        ELSE [called EXCEPT !.returned = TRUE, !.result = FetchResult(None, "no_data")]

\* Mutant: the loop falling through always reports no data.
AllTriedNoData(acc) ==
    [acc EXCEPT !.returned = TRUE, !.result = FetchResult(None, "no_data")]

\* After the loop (lines 183-192).
AllTried(acc) ==
    [acc EXCEPT !.returned = TRUE,
                !.result = IF acc.has_exception THEN FetchResult(None, NoSource)
                                                ELSE FetchResult(None, "no_data")]

\* The for loop of fetch from position i of the attempt order on.
RECURSIVE FetchLoop(_, _, _, _, _)
FetchLoop(sources, provider_answers, stock_name, i, acc) ==
    IF acc.returned THEN acc
    ELSE IF i > Len(sources) THEN AllTried(acc)
    ELSE FetchLoop(sources, provider_answers, stock_name, i + 1,
            TrySource(acc, sources[i], provider_answers[sources[i]], stock_name))

\* MultiSourceFetcher.fetch
Fetch(preferred, stats, provider_answers, stock_name) ==
    FetchLoop(AttemptOrder(preferred), provider_answers, stock_name, 1, FetchLocals(stats))

\* ------------------------------------------------------------------ dates
\* A pandas Timestamp of a calendar day, and the strings strftime makes of it:
\* a date string keeps its format.  DashFmt is the format of the date column
\* of a series file, YmdFmt that of the watermarks and of the windows.
DashFmt == "%Y-%m-%d"
YmdFmt == "%Y%m%d"
Timestamp(day) == [day |-> day, fmt |-> "Timestamp"]
Strftime(ts, fmt) == [day |-> ts.day, fmt |-> fmt]
Ymd(day) == Strftime(Timestamp(day), YmdFmt)
Dash(day) == Strftime(Timestamp(day), DashFmt)
\* pd.to_datetime parses either format and leaves a Timestamp as it is.
ToDatetime(x) == Timestamp(x.day)
\* ts + timedelta(days=n)
AddDays(ts, n) == Timestamp(ts.day + n)

\* Python's >= on two date strings: zero-padded strings of one format order as
\* their days do; of two formats the one with '-' at the fifth place sorts
\* first ('-' < '0'), the days of the model sharing their year.
StrGE(a, b) ==
    IF a.fmt = b.fmt THEN a.day >= b.day ELSE b.fmt = DashFmt

\* ------------------------------------------------------------------ data_saver
\* A row is valid when both cells are not NaN and positive.
\* Mutant: only the volume is looked at.
IsTradedVolumeOnly(row) == row.volume # NA /\ row.volume.num > 0

\* The mask of filter_suspended_trading_data (lines 39-44).
IsTraded(row) ==
    /\ row.volume # NA
    /\ row.amount # NA
    /\ row.volume.num > 0
    /\ row.amount.num > 0

\* filter_suspended_trading_data: (df_filtered, removed_count).  Frames of the
\* program always carry the volume and amount columns (line 35).
FilterSuspended(rows) ==
    IF rows = <<>> THEN [df |-> rows, removed |-> 0]
    ELSE LET df_filtered == SelectSeq(rows, IsTraded)
         IN  [df |-> df_filtered, removed |-> Len(rows) - Len(df_filtered)]

\* df[date_col] = pd.to_datetime(df[date_col])
DatesToDatetime(rows) ==
    [i \in DOMAIN rows |-> [rows[i] EXCEPT !.date = ToDatetime(@)]]

\* Mutant: drop_duplicates(..., keep='last').
DropDuplicatesKeepLast(rows) ==
    LET keep(i) == \A j \in (i + 1)..Len(rows) : rows[j].date # rows[i].date
        F[i \in 0..Len(rows)] ==
            IF i = 0 THEN <<>>
            ELSE IF keep(i) THEN Append(F[i - 1], rows[i]) ELSE F[i - 1]
    IN  F[Len(rows)]

\* drop_duplicates(subset=[date_col]), keep='first' by default, on parsed dates.
DropDuplicates(rows) ==
    LET keep(i) == \A j \in 1..(i - 1) : rows[j].date # rows[i].date
        F[i \in 0..Len(rows)] ==
            IF i = 0 THEN <<>>
            ELSE IF keep(i) THEN Append(F[i - 1], rows[i]) ELSE F[i - 1]
    IN  F[Len(rows)]

\* sort_values(by=date_col), ascending; the dates are distinct when it runs.
RECURSIVE SortValues(_)
SortValues(rows) ==
    IF rows = <<>> THEN <<>>
    ELSE LET m == CHOOSE i \in DOMAIN rows :
                    \A j \in DOMAIN rows :
                        \/ rows[i].date.day < rows[j].date.day
                        \/ (rows[i].date.day = rows[j].date.day /\ i <= j)
             rest == [k \in 1..(Len(rows) - 1) |-> IF k < m THEN rows[k] ELSE rows[k + 1]]
         IN  <<rows[m]>> \o SortValues(rest)

\* save_dataframe: the date column is parsed and written as '%Y-%m-%d'; the
\* rows are written in the order of the frame.
SaveDataframe(rows) ==
    [i \in DOMAIN rows |-> [rows[i] EXCEPT !.date = Strftime(ToDatetime(@), DashFmt)]]

\* A series file that exists, holding rows; Absent stands for no file.
CsvFile(rows) == [rows |-> rows]

\* A series file that exists and that pd.read_csv cannot parse: the read raises.
Malformed == [malformed |-> TRUE]

\* What merge_and_save_data leaves to its caller when pd.read_csv raised.
ReadError == [error |-> "read_csv"]

\* pd.read_csv of a series file that can be parsed.
ReadCsv(file) == file.rows

\* Mutant: the combined frame takes the name of the new rows throughout.
CombineFramesRenamed(df_existing_filtered, df_new_filtered) ==
    LET df == SortValues(DropDuplicates(DatesToDatetime(df_existing_filtered \o df_new_filtered)))
    IN  [i \in DOMAIN df |-> [df[i] EXCEPT !.name = df_new_filtered[1].name]]

\* Lines 124-127: concat, parse the dates, drop duplicates, sort.
CombineFrames(df_existing_filtered, df_new_filtered) ==
    SortValues(DropDuplicates(DatesToDatetime(df_existing_filtered \o df_new_filtered)))

\* df[date_col].max().strftime('%Y%m%d') of a frame with rows.
MaxDateYmd(rows) ==
    LET ts == DatesToDatetime(rows)
        m == CHOOSE i \in DOMAIN ts : \A j \in DOMAIN ts : ts[j].date.day <= ts[i].date.day
    IN  Strftime(ts[m].date, YmdFmt)

\* ------------------------------------------------------------------ metadata_manager
\* A Python dict as a function on its keys.
EmptyDict == <<>>
DictGet(dict, key) == IF key \in DOMAIN dict THEN dict[key] ELSE None
DictSet(dict, key, value) ==
    [k \in DOMAIN dict \cup {key} |-> IF k = key THEN value ELSE dict[k]]

\* The store of one process: _cache (None until loaded) and the content of
\* .metadata.json (Absent, or the dict json.dump wrote).
Store(cache_, file_) == [file |-> file_, cache |-> cache_]

\* A file cut short in the middle of a write: what it holds is no mapping, and
\* json.load raises on it.
Torn == [torn |-> TRUE]

\* _load_metadata: the cache when set, else the file, else (any error) {}.
LoadMetadata(store) ==
    IF store.cache # None THEN store
    ELSE IF store.file # Absent /\ store.file # Torn
    THEN [store EXCEPT !.cache = store.file]
    ELSE [store EXCEPT !.cache = EmptyDict]

\* Line 31: the name of .metadata.json among the names of the directory; the
\* other names are pairs of a process id and a number.
Canonical == <<0, 0>>

\* Line 76: the numbers random.randint(1000, 9999) may give, the least and
\* the greatest.
Suffixes == {1000, 9999}

\* Mutant: the mapping is written into .metadata.json itself.
TempFileIsCanonical(pid, suffix) == <<0, 0>>

\* Mutant: the name of the temporary file carries no process id.
TempFileWithoutPid(pid, suffix) == <<0, suffix>>

\* Line 76: temp_file, named after the process id and a random number.
TempFile(pid, suffix) == <<pid, suffix>>

\* Line 64: the attempts _save_metadata makes.
max_retries == 3

\* What one write of the metadata file can do on each attempt.
AttemptOutcomes == [1 .. max_retries -> BOOLEAN]

\* Mutant: the last failed attempt raises its error to the caller.
SaveLoopReraises(store, metadata, attempts, attempt) ==
    IF \E i \in attempt .. max_retries : attempts[i]
    THEN [store |-> [store EXCEPT !.file = metadata], raised |-> FALSE, logged |-> FALSE]
    ELSE [store |-> store, raised |-> TRUE, logged |-> TRUE]

\* Lines 67-104: the loop of _save_metadata from one attempt on; attempts[i]
\* tells whether the write and the replace of attempt i succeed. A failed
\* attempt is caught; the last one is logged, the others are retried.
RECURSIVE SaveLoop(_, _, _, _)
SaveLoop(store, metadata, attempts, attempt) ==
    IF attempt > max_retries
    THEN [store |-> store, raised |-> FALSE, logged |-> TRUE]
    ELSE IF attempts[attempt]
    THEN [store |-> [store EXCEPT !.file = metadata], raised |-> FALSE, logged |-> FALSE]
    ELSE SaveLoop(store, metadata, attempts, attempt + 1)

\* _save_metadata: the temporary file replaces the canonical one when one of
\* the attempts succeeds; when all fail the error is logged and swallowed.
SaveMetadata(store, metadata, write_ok) ==
    SaveLoop(store, metadata, [i \in 1 .. max_retries |-> write_ok], 1).store

\* get_last_date: (value, store after the lazy load)
GetLastDate(store, stock_code) == DictGet(LoadMetadata(store).cache, stock_code)

\* update_last_date
UpdateLastDate(store, stock_code, last_date, write_ok) ==
    LET metadata == DictSet(LoadMetadata(store).cache, stock_code, last_date)
    IN  SaveMetadata([LoadMetadata(store) EXCEPT !.cache = metadata], metadata, write_ok)

\* update_last_date, with the outcome of each attempt to write given:
\* [store, raised, logged].
UpdateLastDateAttempts(store, stock_code, last_date, attempts) ==
    LET metadata == DictSet(LoadMetadata(store).cache, stock_code, last_date)
    IN  SaveLoop([LoadMetadata(store) EXCEPT !.cache = metadata], metadata, attempts, 1)

\* dict.update(updates)
DictUpdate(dict, updates) ==
    [k \in DOMAIN dict \cup DOMAIN updates |->
        IF k \in DOMAIN updates THEN updates[k] ELSE dict[k]]

\* del dict[key]
DictDel(dict, key) == [k \in DOMAIN dict \ {key} |-> dict[k]]

\* batch_update
BatchUpdate(store, updates, attempts) ==
    LET metadata == DictUpdate(LoadMetadata(store).cache, updates)
    IN  SaveLoop([LoadMetadata(store) EXCEPT !.cache = metadata], metadata, attempts, 1)

\* remove_stock: nothing is written when the code is not in the metadata.
RemoveStock(store, stock_code, attempts) ==
    LET loaded == LoadMetadata(store)
        metadata == DictDel(loaded.cache, stock_code)
    IN  IF stock_code \in DOMAIN loaded.cache
        THEN SaveLoop([loaded EXCEPT !.cache = metadata], metadata, attempts, 1)
        ELSE [store |-> loaded, raised |-> FALSE, logged |-> FALSE]

\* Lines 181-190: whether the loop of rebuild_from_files finds a series with
\* rows for the code; a missing file is passed over, a read that raises is
\* caught, an empty frame adds nothing.
HasSeries(data_dir, stock_code) ==
    /\ data_dir[stock_code] # Absent
    /\ data_dir[stock_code] # Malformed
    /\ ReadCsv(data_dir[stock_code]) # <<>>

\* rebuild_from_files(stock_codes) over the series files data_dir: the dict is
\* built anew, and replaces the cache and the file only when it is not empty
\* (line 198).  [store, returned]
RebuildFromFiles(store, data_dir, stock_codes, attempts) ==
    LET F[i \in 0 .. Len(stock_codes)] ==
            IF i = 0 THEN EmptyDict
            ELSE IF HasSeries(data_dir, stock_codes[i])
            THEN DictSet(F[i - 1], stock_codes[i],
                         MaxDateYmd(ReadCsv(data_dir[stock_codes[i]])))
            ELSE F[i - 1]
        metadata == F[Len(stock_codes)]
        success_count ==
            Cardinality({i \in DOMAIN stock_codes : HasSeries(data_dir, stock_codes[i])})
    IN  IF metadata # EmptyDict
        THEN [returned |-> success_count,
              store |-> SaveLoop([store EXCEPT !.cache = metadata], metadata, attempts, 1).store]
        ELSE [returned |-> success_count, store |-> store]

\* ------------------------------------------------------------------ merge_and_save_data
\* Mutant: an all-suspended batch leaves the metadata alone.
EmptyBatchWatermarkSkipped(fetch_end_date) == None

\* Lines 110-111: the date handed to update_last_date when the filtered batch
\* is empty, None when there is no call.
EmptyBatchWatermark(fetch_end_date) == fetch_end_date

\* Mutant: the metadata always takes the last date of the data.
MergedWatermarkFromData(df_new_filtered, fetch_end_date) ==
    MaxDateYmd(df_new_filtered)

\* Lines 140-149: the date handed to update_last_date after a save.
MergedWatermark(df_new_filtered, fetch_end_date) ==
    IF fetch_end_date # None THEN fetch_end_date
    ELSE IF df_new_filtered # <<>> THEN MaxDateYmd(df_new_filtered)
    ELSE None

\* update_last_date when a date is handed over.
MaybeUpdate(store, stock_code, last_date, write_ok) ==
    IF last_date # None THEN UpdateLastDate(store, stock_code, last_date, write_ok)
    ELSE store

\* Mutant: a series file that exists is merged into also on a full refresh.
MergeAndSaveDataAlwaysMerges(df_new, output_file, stock_code, need_full_refresh, store, fetch_end_date, write_ok) ==
    LET new == FilterSuspended(df_new)
    IN  IF new.df = <<>>
        THEN [file |-> output_file,
              store |-> MaybeUpdate(store, stock_code,
                            EmptyBatchWatermark(fetch_end_date), write_ok),
              ret |-> [is_update |-> FALSE, new_count |-> 0, removed_count |-> new.removed]]
        ELSE IF output_file = Malformed
        THEN [file |-> output_file, store |-> store, ret |-> ReadError]
        ELSE LET incremental == output_file # Absent
                 existing == FilterSuspended(ReadCsv(output_file))
                 saved == IF incremental
                          THEN SaveDataframe(CombineFrames(existing.df, new.df))
                          ELSE SaveDataframe(new.df)
             IN  [file |-> CsvFile(saved),
                  store |-> MaybeUpdate(store, stock_code,
                                MergedWatermark(new.df, fetch_end_date), write_ok),
                  ret |-> [is_update |-> IF incremental THEN TRUE ELSE need_full_refresh,
                           new_count |-> Len(new.df),
                           removed_count |-> new.removed
                               + (IF incremental THEN existing.removed ELSE 0)]]

\* Mutant: the rows read from the series file are merged as they are.
MergeAndSaveDataKeepsExisting(df_new, output_file, stock_code, need_full_refresh, store, fetch_end_date, write_ok) ==
    LET new == FilterSuspended(df_new)
    IN  IF new.df = <<>>
        THEN [file |-> output_file,
              store |-> MaybeUpdate(store, stock_code,
                            EmptyBatchWatermark(fetch_end_date), write_ok),
              ret |-> [is_update |-> FALSE, new_count |-> 0, removed_count |-> new.removed]]
        ELSE IF output_file = Malformed /\ ~need_full_refresh
        THEN [file |-> output_file, store |-> store, ret |-> ReadError]
        ELSE LET incremental == output_file # Absent /\ ~need_full_refresh
                 existing == [df |-> ReadCsv(output_file), removed |-> 0]
                 saved == IF incremental
                          THEN SaveDataframe(CombineFrames(existing.df, new.df))
                          ELSE SaveDataframe(new.df)
             IN  [file |-> CsvFile(saved),
                  store |-> MaybeUpdate(store, stock_code,
                                MergedWatermark(new.df, fetch_end_date), write_ok),
                  ret |-> [is_update |-> IF incremental THEN TRUE ELSE need_full_refresh,
                           new_count |-> Len(new.df),
                           removed_count |-> new.removed
                               + (IF incremental THEN existing.removed ELSE 0)]]

\* merge_and_save_data with a metadata manager: the series file and the store
\* afterwards, and the tuple returned.
MergeAndSaveData(df_new, output_file, stock_code, need_full_refresh, store, fetch_end_date, write_ok) ==
    LET new == FilterSuspended(df_new)
    IN  IF new.df = <<>>
        THEN [file |-> output_file,
              store |-> MaybeUpdate(store, stock_code,
                            EmptyBatchWatermark(fetch_end_date), write_ok),
              ret |-> [is_update |-> FALSE, new_count |-> 0, removed_count |-> new.removed]]
        ELSE IF output_file = Malformed /\ ~need_full_refresh
        THEN [file |-> output_file, store |-> store, ret |-> ReadError]
        ELSE LET incremental == output_file # Absent /\ ~need_full_refresh
                 existing == FilterSuspended(ReadCsv(output_file))
                 saved == IF incremental
                          THEN SaveDataframe(CombineFrames(existing.df, new.df))
                          ELSE SaveDataframe(new.df)
             IN  [file |-> CsvFile(saved),
                  store |-> MaybeUpdate(store, stock_code,
                                MergedWatermark(new.df, fetch_end_date), write_ok),
                  ret |-> [is_update |-> IF incremental THEN TRUE ELSE need_full_refresh,
                           new_count |-> Len(new.df),
                           removed_count |-> new.removed
                               + (IF incremental THEN existing.removed ELSE 0)]]

\* ------------------------------------------------------------------ state
\* MultiSourceFetcher: the configured preferred source and the usage counters.
VARIABLES PREFERRED_SOURCE, preferred_source, source_stats
\* The last fetch call: what each provider answers for its window (the
\* environment), the name passed in, the counters before it and what it
\* returned (FetchLocals at the return statement), or None before any call.
VARIABLES answers, stock_name, stats_before, fetched

\* The last call of filter_suspended_trading_data: its frame and what it returned.
VARIABLES filter_in, filter_out
\* The data directory: the series file of each instrument (Absent or CsvFile),
\* the content of .metadata.json, and the _cache of the running process.
VARIABLES files, metadata_file, cache
\* The last call of merge_and_save_data: its arguments, the series file before
\* it, the tuple returned, and the file left by the first of two equal calls.
VARIABLES merge_call
\* The history of the instrument at the exchange, which the providers report.
VARIABLES market
\* The last iteration of the main loop for the instrument: how it ended and
\* the end of the window it fetched (None before the first, and fetch_end None
\* when nothing was fetched).
VARIABLES run
\* The last call of get_missing_date_range: its arguments and its tuple.
VARIABLES resolve_call
\* The last call made on the MetadataManager: its name, arguments and result.
VARIABLES store_call
\* The processes that share one MetadataManager directory, each at its place
\* in update_last_date and _save_metadata, and the temporary files next to
\* .metadata.json.
VARIABLES procs, temp_files
\* A save_dataframe in flight: the file it writes and the rows still to write.
VARIABLES writer
\* The main loop over the stock list: the index reached, the counters and
\* failed_stocks.
VARIABLES batch
\* The scope of `with MultiSourceFetcher(...)`: where the script is, whether the
\* baostock session is open, and how the scope was left.
VARIABLES session

fetchVars == <<PREFERRED_SOURCE, preferred_source, source_stats, answers, stock_name, stats_before, fetched>>
filterVars == <<filter_in, filter_out>>
diskVars == <<files, metadata_file, cache>>
mergeVars == <<merge_call>>
envVars == <<market>>
traceVars == <<run, resolve_call, store_call>>
stepVars == <<procs, temp_files, writer, batch, session>>

vars == <<fetchVars, filterVars, diskVars, mergeVars, envVars, traceVars, stepVars>>

\* ------------------------------------------------------------------ fetch-level specification
\* Rows a provider hands to fetch: a traded day or a halted day (empty cells).
ProviderRow(d, traded) ==
    [date |-> Dash(d), volume |-> IF traded THEN Num(100) ELSE NA,
                       amount |-> IF traded THEN Num(2000) ELSE NA]

\* The answers of one provider in the fetch-level specification.
FetchAnswers ==
    {[kind |-> "raise", error |-> "timeout"], [kind |-> "none"],
     [rows |-> <<>>, kind |-> "frame"]}
        \cup {[rows |-> <<ProviderRow(d, TRUE)>>, kind |-> "frame"] : d \in 1..MergeDays}

ZeroStats == [s \in SourceNames |-> 0]
NoAnswers == [s \in SourceNames |-> [kind |-> "none"]]

TotalUses(stats) == stats["baostock"] + stats["akshare"] + stats["yfinance"]

InitFetcher ==
    /\ PREFERRED_SOURCE \in SourceNames \cup {"tushare"}
    /\ preferred_source = InitPreferred(PREFERRED_SOURCE)
    /\ source_stats = ZeroStats
    /\ answers = NoAnswers
    /\ stock_name \in Names
    /\ stats_before = ZeroStats
    /\ fetched = None

\* A caller invokes fetch; the providers answer as the environment decides.
FetchCall(provider_answers, name) ==
    /\ answers' = provider_answers
    /\ stock_name' = name
    /\ stats_before' = source_stats
    /\ fetched' = Fetch(preferred_source, source_stats, provider_answers, name)
    /\ source_stats' = fetched'.source_stats
    /\ UNCHANGED <<PREFERRED_SOURCE, preferred_source>>

\* reset_stats
ResetStats ==
    /\ source_stats' = ZeroStats
    /\ stats_before' = ZeroStats
    /\ fetched' = None
    /\ answers' = NoAnswers
    /\ UNCHANGED <<PREFERRED_SOURCE, preferred_source, stock_name>>

\* The fetcher as the batch run builds it (config.PREFERRED_SOURCE), unused.
InitFetcherIdle ==
    /\ PREFERRED_SOURCE = "baostock"
    /\ preferred_source = InitPreferred(PREFERRED_SOURCE)
    /\ source_stats = ZeroStats
    /\ answers = NoAnswers
    /\ stock_name = "PingAn"
    /\ stats_before = ZeroStats
    /\ fetched = None

\* Nothing filtered, nothing on disk, no merge made, no exchange consulted.
InitFilterIdle == filter_in = <<>> /\ filter_out = None
InitDiskEmpty ==
    /\ files = [c \in Codes |-> Absent]
    /\ metadata_file = Absent
    /\ cache = None
InitMergeIdle == merge_call = None
InitMarketIdle == market = None
InitTraceIdle == run = None /\ resolve_call = None /\ store_call = None
InitProcsIdle == procs = None /\ temp_files = None
InitWriterIdle == writer = None
InitBatchIdle == batch = None
InitSessionIdle == session = None
InitStepIdle == InitProcsIdle /\ InitWriterIdle /\ InitBatchIdle /\ InitSessionIdle

InitFetch ==
    /\ InitFetcher /\ InitFilterIdle /\ InitDiskEmpty /\ InitMergeIdle
    /\ InitMarketIdle /\ InitTraceIdle /\ InitStepIdle

NextFetch ==
    \/ /\ TotalUses(source_stats) < MaxFetches
       /\ \E a \in [SourceNames -> FetchAnswers], n \in Names : FetchCall(a, n)
       /\ UNCHANGED <<filterVars, diskVars, mergeVars, envVars, stepVars, traceVars>>
    \/ /\ TotalUses(source_stats) > 0
       /\ ResetStats
       /\ UNCHANGED <<filterVars, diskVars, mergeVars, envVars, stepVars, traceVars>>

SpecFetch == InitFetch /\ [][NextFetch]_vars

\* ------------------------------------------------------------------ filter-level specification
\* Cells a volume or amount column may hold: NaN, a negative number, zero, a
\* positive number.
Cells == {NA, Num(-5), Num(0), Num(100)}

\* Frames handed to filter_suspended_trading_data.
FilterRows ==
    {[date |-> Dash(d), name |-> "PingAn", volume |-> v, amount |-> a] :
        d \in 1..MergeDays, v \in Cells, a \in Cells}
FilterFrames == SeqsUpTo(FilterRows, MaxBatch)

InitFilter ==
    /\ InitFetcherIdle /\ InitDiskEmpty /\ InitMergeIdle /\ InitMarketIdle
    /\ InitTraceIdle /\ InitStepIdle
    /\ filter_in \in FilterFrames
    /\ filter_out = None

\* A caller filters its frame.
FilterCall ==
    /\ filter_out = None
    /\ filter_out' = FilterSuspended(filter_in)
    /\ UNCHANGED filter_in

NextFilter == FilterCall /\ UNCHANGED <<fetchVars, diskVars, mergeVars, envVars, stepVars, traceVars>>

SpecFilter == InitFilter /\ [][NextFilter]_vars

\* ------------------------------------------------------------------ merge-level specification
\* The instrument the merge calls are made for.
TheCode == StockList[1]

\* Frames handed to merge_and_save_data: rows of a fetch in any order, all
\* carrying the name the instrument has at the time of the call.
ProviderRows == {ProviderRow(d, t) : d \in 1..MergeDays, t \in BOOLEAN}
MergeFrames ==
    {InsertName(rows, "*ST_PingAn") : rows \in SeqsUpTo(ProviderRows, MaxBatch)}

\* fetch_end_date: not given, or the end of the requested window.
MergeEnds == {None} \cup {Ymd(d) : d \in 1..MergeDays}

\* Series files an earlier run left: per day no row, a traded row under the
\* name of that time, or a halted row written before the filter existed; dates
\* ascending.
SeedKinds == {"no row", "traded", "halted"}
SeedRow(d, kind) ==
    IF kind = "halted"
    THEN [date |-> Dash(d), name |-> "PingAn", volume |-> NA, amount |-> NA]
    ELSE [date |-> Dash(d), name |-> "PingAn", volume |-> Num(100), amount |-> Num(2000)]
SeedRows(choice) ==
    LET F[d \in 0..MergeDays] ==
            IF d = 0 THEN <<>>
            ELSE IF choice[d] = "no row" THEN F[d - 1]
            ELSE Append(F[d - 1], SeedRow(d, choice[d]))
    IN  F[MergeDays]
SeedFiles ==
    {IF SeedRows(ch) = <<>> THEN Absent ELSE CsvFile(SeedRows(ch)) :
        ch \in [1..MergeDays -> SeedKinds]}

\* Metadata files an earlier run left: none, or the first day as last date.
SeedMetadata == {Absent, DictSet(EmptyDict, TheCode, Ymd(START_DATE))}

InitMerge ==
    /\ InitFetcherIdle /\ InitFilterIdle /\ InitMergeIdle /\ InitMarketIdle
    /\ InitTraceIdle /\ InitStepIdle
    /\ \E f \in SeedFiles : files = [c \in Codes |-> IF c = TheCode THEN f ELSE Absent]
    /\ metadata_file \in SeedMetadata
    /\ cache = None

\* merge_and_save_data(df_new, file of TheCode, TheCode, need_full_refresh,
\* metadata_manager, fetch_end_date); write_ok is whether .metadata.json could
\* be written.
MergeCall(df_new, need_full_refresh, fetch_end_date, write_ok) ==
    \E out \in {MergeAndSaveData(df_new, files[TheCode], TheCode, need_full_refresh,
                                 Store(cache, metadata_file), fetch_end_date, write_ok)} :
        /\ files' = [files EXCEPT ![TheCode] = out.file]
        /\ cache' = out.store.cache
        /\ metadata_file' = out.store.file
        /\ merge_call' =
              [write_ok |-> write_ok, fetch_end_date |-> fetch_end_date,
               df_new |-> df_new, need_full_refresh |-> need_full_refresh,
               ret |-> out.ret,
               before |-> files[TheCode],
               once |-> IF merge_call = None THEN None ELSE files[TheCode]]

NextMerge ==
    \/ /\ merge_call = None
       /\ \E df_new \in MergeFrames, full \in BOOLEAN, e \in MergeEnds, ok \in BOOLEAN :
             MergeCall(df_new, full, e, ok)
       /\ UNCHANGED <<fetchVars, filterVars, envVars, stepVars, traceVars>>
    \/ /\ merge_call # None
       /\ merge_call.once = None
       /\ MergeCall(merge_call.df_new, merge_call.need_full_refresh,
                    merge_call.fetch_end_date, TRUE)
       /\ UNCHANGED <<fetchVars, filterVars, envVars, stepVars, traceVars>>

SpecMerge == InitMerge /\ [][NextMerge]_vars

\* ------------------------------------------------------------------ write-level specification
\* merge_and_save_data with df.to_csv(output_file) of save_dataframe (line 71)
\* followed step by step: the file is opened for writing, which empties it,
\* the rows follow in order, the file is closed; the process may be stopped in
\* between.
InitWrite ==
    /\ InitFetcherIdle /\ InitFilterIdle /\ InitMergeIdle /\ InitMarketIdle
    /\ InitTraceIdle /\ InitProcsIdle /\ InitWriterIdle /\ InitBatchIdle /\ InitSessionIdle
    /\ \E f \in SeedFiles : files = [c \in Codes |-> IF c = TheCode THEN f ELSE Absent]
    /\ metadata_file = Absent
    /\ cache = None

WriteStep ==
    /\ UNCHANGED <<procs, temp_files, batch, session>>
    /\ UNCHANGED <<fetchVars, filterVars, mergeVars, envVars, traceVars>>

\* merge_and_save_data up to the open of df.to_csv: the frame to write is
\* made (lines 105-127) and the file is opened with mode 'w'.
BeginToCsv(df_new, need_full_refresh) ==
    /\ IF writer = None THEN TRUE ELSE writer.pc # "writing"
    /\ \E out \in {MergeAndSaveData(df_new, files[TheCode], TheCode, need_full_refresh,
                                    Store(cache, metadata_file), None, TRUE)} :
          /\ out.ret # ReadError
          /\ out.ret.new_count > 0
          /\ writer' = [store |-> out.store, before |-> files[TheCode],
                        pc |-> "writing", after |-> out.file, written |-> 0]
          /\ files' = [files EXCEPT ![TheCode] = Malformed]
    /\ UNCHANGED <<metadata_file, cache>>
    /\ WriteStep

\* to_csv writes the next row.
WriteRow ==
    /\ writer # None
    /\ writer.pc = "writing"
    /\ writer.written < Len(writer.after.rows)
    /\ writer' = [writer EXCEPT !.written = @ + 1]
    /\ files' = [files EXCEPT
            ![TheCode] = CsvFile(SubSeq(writer.after.rows, 1, writer.written + 1))]
    /\ UNCHANGED <<metadata_file, cache>>
    /\ WriteStep

\* to_csv closes the file; merge_and_save_data stores the last date (lines
\* 139-150) and returns.
CloseCsv ==
    /\ writer # None
    /\ writer.pc = "writing"
    /\ writer.written = Len(writer.after.rows)
    /\ writer' = [writer EXCEPT !.pc = "closed"]
    /\ metadata_file' = writer.store.file
    /\ cache' = writer.store.cache
    /\ UNCHANGED files
    /\ WriteStep

\* The process is stopped inside to_csv (Ctrl-C, kill, power): what was
\* written so far stays in the file.
InterruptToCsv ==
    /\ writer # None
    /\ writer.pc = "writing"
    /\ writer' = [writer EXCEPT !.pc = "interrupted"]
    /\ UNCHANGED <<files, metadata_file, cache>>
    /\ WriteStep

NextWrite ==
    \/ \E df_new \in MergeFrames, full \in BOOLEAN : BeginToCsv(df_new, full)
    \/ WriteRow
    \/ CloseCsv
    \/ InterruptToCsv

SpecWrite == InitWrite /\ [][NextWrite]_vars

\* ------------------------------------------------------------------ trading_day_checker
\* d.weekday() of a day of the model: day 1 is a Thursday (weekday 3).
Weekday(d) == (d + 2) % 7

\* A day the exchange is open: the sessions of the days of the model are its
\* days from Monday to Friday (line 60, and line 67 without the calendar).
IsSession(d) == Weekday(d) < 5
SessionDays == {d \in Days : IsSession(d)}

\* has_trading_day(start_date, end_date): some day of the range is a session.
HasTradingDay(start_date, end_date) ==
    \E d \in (ToDatetime(start_date).day)..(ToDatetime(end_date).day) : IsSession(d)

\* ------------------------------------------------------------------ missing_date_range_checker
\* The tuples get_missing_date_range returns.
NoUpdate ==
    [need_full_refresh |-> FALSE, need_update |-> FALSE, fetch_start |-> None,
     fetch_end |-> None, missing_dates_list |-> None]
Update(fetch_start, fetch_end, need_full_refresh, missing_dates_list) ==
    [need_full_refresh |-> need_full_refresh, need_update |-> TRUE, fetch_start |-> fetch_start,
     fetch_end |-> fetch_end, missing_dates_list |-> missing_dates_list]

\* sorted(...) of a set of days.
SortedDays(S) ==
    CHOOSE f \in [1..Cardinality(S) -> S] :
        \A i, j \in 1..Cardinality(S) : i < j => f[i] < f[j]
MinDay(S) == CHOOSE d \in S : \A e \in S : d <= e
MaxOfDays(S) == CHOOSE d \in S : \A e \in S : e <= d

\* Mutant: the tail after last_date is fetched without asking the calendar.
TailAfterAnyDay(last_date, end_date) ==
    Update(Strftime(AddDays(ToDatetime(last_date), 1), YmdFmt), end_date, FALSE, None)

\* Lines 82-89 and 116-123: the tail after last_date, when it holds a session.
TailAfter(last_date, end_date) ==
    LET next_day == Strftime(AddDays(ToDatetime(last_date), 1), YmdFmt)
    IN  IF HasTradingDay(next_day, end_date)
        THEN Update(next_day, end_date, FALSE, None)
        ELSE NoUpdate

\* Mutant: full mode treats a middle gap as head_tail mode does.
GapDecisionFullIgnoresMiddle(update_mode, has_head_missing, has_tail_missing, has_middle_missing) ==
    IF update_mode = "tail"
    THEN (IF has_tail_missing THEN "tail" ELSE "none")
    ELSE IF has_head_missing /\ has_tail_missing THEN "refresh"
    ELSE IF has_tail_missing THEN "tail"
    ELSE IF has_head_missing THEN "head"
    ELSE "none"

\* Mutant: head_tail mode with a middle gap fetches the whole window.
GapDecisionHeadTailRefreshesMiddle(update_mode, has_head_missing, has_tail_missing, has_middle_missing) ==
    IF has_middle_missing /\ update_mode # "tail" THEN "refresh"
    ELSE IF update_mode = "tail"
    THEN (IF has_tail_missing THEN "tail" ELSE "none")
    ELSE IF has_head_missing /\ has_tail_missing THEN "refresh"
    ELSE IF has_tail_missing THEN "tail"
    ELSE IF has_head_missing THEN "head"
    ELSE "none"

\* Lines 179-233: which window the gaps found ask for: the whole window with a
\* full refresh, the tail, the head, or none.
GapDecision(update_mode, has_head_missing, has_tail_missing, has_middle_missing) ==
    IF has_middle_missing /\ update_mode = "full" THEN "refresh"
    ELSE IF has_middle_missing /\ update_mode = "tail"
    THEN (IF has_tail_missing THEN "tail" ELSE "none")
    ELSE IF has_middle_missing /\ update_mode = "head_tail"
    THEN (IF has_head_missing /\ has_tail_missing THEN "refresh"
          ELSE IF has_tail_missing THEN "tail"
          ELSE IF has_head_missing THEN "head"
          ELSE "none")
    ELSE IF update_mode = "tail"
    THEN (IF has_tail_missing THEN "tail" ELSE "none")
    ELSE IF has_tail_missing /\ ~has_head_missing THEN "tail"
    ELSE IF has_head_missing /\ ~has_tail_missing THEN "head"
    ELSE IF has_head_missing /\ has_tail_missing THEN "refresh"
    ELSE "none"

\* Lines 129-233: the whole file is read.
FullAnalysis(rows, start_date, end_date, update_mode) ==
    IF rows = <<>> THEN Update(start_date, end_date, FALSE, None)
    ELSE
    LET existing_dates == {ToDatetime(rows[i].date).day : i \in DOMAIN rows}
        existing_start == MinDay(existing_dates)
        existing_end == MaxOfDays(existing_dates)
        target_dates == (ToDatetime(start_date).day)..(ToDatetime(end_date).day)
        missing_dates == target_dates \ existing_dates
        missing_trading_days == {d \in missing_dates : HasTradingDay(Ymd(d), Ymd(d))}
        missing_sorted == SortedDays(missing_trading_days)
        missing_dates_formatted ==
            [i \in DOMAIN missing_sorted |-> Dash(missing_sorted[i])]
        has_head_missing == missing_sorted[1] < existing_start
        has_tail_missing == missing_sorted[Len(missing_sorted)] > existing_end
        has_middle_missing ==
            \E d \in missing_trading_days : existing_start < d /\ d < existing_end
        tail == Update(Ymd(existing_end + 1), end_date, FALSE, missing_dates_formatted)
        head == Update(start_date, Ymd(existing_start - 1), FALSE, missing_dates_formatted)
        refresh == Update(start_date, end_date, TRUE, missing_dates_formatted)
        decision == GapDecision(update_mode, has_head_missing, has_tail_missing,
                                has_middle_missing)
    IN  IF missing_dates = {} THEN NoUpdate
        ELSE IF missing_trading_days = {} THEN NoUpdate
        ELSE IF decision = "refresh" THEN refresh
        ELSE IF decision = "tail" THEN tail
        ELSE IF decision = "head" THEN head
        ELSE NoUpdate

\* Mutant: the last date stored is consulted before the series file is looked
\* for.
GetMissingDateRangeMetadataFirst(existing_file, stock_code, start_date, end_date, update_mode, store) ==
    IF update_mode = "tail" /\ GetLastDate(store, stock_code) # None
    THEN LET last_date == GetLastDate(store, stock_code)
         IN  IF StrGE(last_date, end_date) THEN NoUpdate
             ELSE TailAfter(last_date, end_date)
    ELSE IF existing_file = Absent THEN Update(start_date, end_date, FALSE, None)
    ELSE IF existing_file = Malformed THEN Update(start_date, end_date, FALSE, None)
    ELSE IF update_mode = "tail"
    THEN LET rows == ReadCsv(existing_file)
             existing_end == Strftime(ToDatetime(rows[Len(rows)].date), YmdFmt)
         IN  IF StrGE(existing_end, end_date) THEN NoUpdate
             ELSE TailAfter(existing_end, end_date)
    ELSE FullAnalysis(ReadCsv(existing_file), start_date, end_date, update_mode)

\* Mutant: tail mode without a last date stored analyses the file as head_tail
\* mode does.
GetMissingDateRangeTailSeesHead(existing_file, stock_code, start_date, end_date, update_mode, store) ==
    IF existing_file = Absent THEN Update(start_date, end_date, FALSE, None)
    ELSE IF update_mode = "tail" /\ GetLastDate(store, stock_code) # None
    THEN LET last_date == GetLastDate(store, stock_code)
         IN  IF StrGE(last_date, end_date) THEN NoUpdate
             ELSE TailAfter(last_date, end_date)
    ELSE IF existing_file = Malformed THEN Update(start_date, end_date, FALSE, None)
    ELSE FullAnalysis(ReadCsv(existing_file), start_date, end_date,
                      IF update_mode = "tail" THEN "head_tail" ELSE update_mode)

\* get_missing_date_range(existing_file, start_date, end_date, update_mode,
\* metadata_manager) for the file of stock_code.  With a file that cannot be
\* parsed the read of the last row raises and is passed over (lines 124-126),
\* the full read raises (line 129) and the except clause answers (235-236).
GetMissingDateRange(existing_file, stock_code, start_date, end_date, update_mode, store) ==
    IF existing_file = Absent THEN Update(start_date, end_date, FALSE, None)
    ELSE IF update_mode = "tail" /\ GetLastDate(store, stock_code) # None
    THEN LET last_date == GetLastDate(store, stock_code)
         IN  IF StrGE(last_date, end_date) THEN NoUpdate
             ELSE TailAfter(last_date, end_date)
    ELSE IF existing_file = Malformed THEN Update(start_date, end_date, FALSE, None)
    ELSE IF update_mode = "tail"
    THEN LET rows == ReadCsv(existing_file)
         IN  IF rows = <<>> THEN Update(start_date, end_date, FALSE, None)
             ELSE LET existing_end ==
                          Strftime(ToDatetime(rows[Len(rows)].date), YmdFmt)
                  IN  IF StrGE(existing_end, end_date) THEN NoUpdate
                      ELSE TailAfter(existing_end, end_date)
    ELSE FullAnalysis(ReadCsv(existing_file), start_date, end_date, update_mode)

\* ------------------------------------------------------------------ providers
\* What the exchange did with the instrument on each session day.
MarketKinds == {"unlisted", "traded", "halted"}

\* The rows the exchange has of the instrument for the days of a window, in
\* ascending order: none before the listing, empty cells on a halted day.
MarketRows(mkt, start_date, end_date) ==
    LET lo == ToDatetime(start_date).day
        hi == ToDatetime(end_date).day
        F[d \in (lo - 1)..hi] ==
            IF d < lo THEN <<>>
            ELSE IF d \in DOMAIN mkt /\ mkt[d] # "unlisted"
            THEN Append(F[d - 1], [date |-> Dash(d),
                                   volume |-> IF mkt[d] = "traded" THEN Num(100) ELSE NA,
                                   amount |-> IF mkt[d] = "traded" THEN Num(2000) ELSE NA])
            ELSE F[d - 1]
    IN  IF hi < lo THEN <<>> ELSE F[hi]

\* BaostockFetcher.fetch: returns None when the login is refused (lines
\* 101-103), raises when the service cannot be reached, returns None when the
\* query has no rows, else the frame.
BaostockFetch(mkt, net, start_date, end_date) ==
    IF net = "baostock_refused" THEN [kind |-> "none"]
    ELSE IF net # "up" THEN [kind |-> "raise", error |-> "network"]
    ELSE IF MarketRows(mkt, start_date, end_date) = <<>> THEN [kind |-> "none"]
    ELSE [rows |-> MarketRows(mkt, start_date, end_date), kind |-> "frame"]

\* AkshareFetcher.fetch: every exception is caught and None returned.
AkshareFetch(mkt, net, start_date, end_date) ==
    IF net = "all_down" THEN [kind |-> "none"]
    ELSE IF MarketRows(mkt, start_date, end_date) = <<>> THEN [kind |-> "none"]
    ELSE [rows |-> MarketRows(mkt, start_date, end_date), kind |-> "frame"]

\* YFinanceFetcher.fetch: every exception is caught and None returned; the
\* amount column is set to 0.0.
YFinanceFetch(mkt, net, start_date, end_date) ==
    LET rows == MarketRows(mkt, start_date, end_date)
    IN  IF net = "all_down" \/ rows = <<>> THEN [kind |-> "none"]
        ELSE [rows |-> [i \in DOMAIN rows |-> [rows[i] EXCEPT !.amount = Num(0)]],
              kind |-> "frame"]

\* all_sources of fetch (lines 132-136) for one window.
Providers(mkt, net, start_date, end_date) ==
    [s \in SourceNames |->
        IF s = "baostock" THEN BaostockFetch(mkt, net, start_date, end_date)
        ELSE IF s = "akshare" THEN AkshareFetch(mkt, net, start_date, end_date)
        ELSE YFinanceFetch(mkt, net, start_date, end_date)]

\* ------------------------------------------------------------------ fetch_historical_data
UpdateModes == {"tail", "full", "head_tail"}
\* What the network does to the providers during a run: all answer; baostock
\* refuses the login; baostock cannot be reached; no provider can be reached.
Nets == {"up", "baostock_refused", "baostock_down", "all_down"}

\* Mutant: a failed fetch advances the last date like an empty one.
HandleResultFailureAdvances(locals, r, output_file, store, stock_code, write_ok) ==
    IF locals.result.data = None
    THEN [file |-> output_file,
          store |-> UpdateLastDate(store, stock_code, r.fetch_end, write_ok),
          outcome |-> IF locals.result.source = "no_data" THEN "no_data" ELSE "failure"]
    ELSE LET m == MergeAndSaveData(locals.result.data.rows, output_file,
                                   stock_code, r.need_full_refresh, store,
                                   r.fetch_end, write_ok)
         IN  [file |-> m.file, store |-> m.store,
              outcome |-> IF m.ret = ReadError THEN "error"
                          ELSE IF m.ret.new_count = 0 THEN "all_invalid" ELSE "merged"]

\* Lines 213-238: what the loop does with the FetchResult of the window
\* r.fetch_start..r.fetch_end; locals is what fetch left (result, source_stats).
\* An exception of merge_and_save_data ends the iteration in one of the except
\* clauses of lines 266-277, which count the instrument as failed ("error").
HandleResult(locals, r, output_file, store, stock_code, write_ok) ==
    IF locals.result.data = None
    THEN IF locals.result.source = "no_data"
         THEN [file |-> output_file,
               store |-> UpdateLastDate(store, stock_code, r.fetch_end, write_ok),
               outcome |-> "no_data"]
         ELSE [file |-> output_file, store |-> store, outcome |-> "failure"]
    ELSE LET m == MergeAndSaveData(locals.result.data.rows, output_file,
                                   stock_code, r.need_full_refresh, store,
                                   r.fetch_end, write_ok)
         IN  [file |-> m.file, store |-> m.store,
              outcome |-> IF m.ret = ReadError THEN "error"
                          ELSE IF m.ret.new_count = 0 THEN "all_invalid" ELSE "merged"]

\* What the providers answer for a window: what the market and the network
\* make them answer, or answers given whatever the window.
AnswersFor(upstream, start_date, end_date) ==
    IF upstream.kind = "market"
    THEN Providers(upstream.mkt, upstream.net, start_date, end_date)
    ELSE upstream.provider_answers

\* Mutant: an instrument found up to date has its last date read again from
\* the series file.
ProcessStockWithRereadsSeries(upstream, output_file, store, stats, preferred, stock_code, name, SAFE_END_DATE, UPDATE_MODE, write_ok) ==
    LET r == GetMissingDateRange(output_file, stock_code, Ymd(START_DATE),
                                 SAFE_END_DATE, UPDATE_MODE, store)
        reread == IF output_file # Absent /\ output_file # Malformed
                  THEN IF ReadCsv(output_file) # <<>>
                       THEN UpdateLastDate(store, stock_code,
                                           MaxDateYmd(ReadCsv(output_file)), write_ok)
                       ELSE store
                  ELSE store
        skipped(why) == [calls |-> <<>>, source_stats |-> stats, file |-> output_file,
                         store |-> IF why = "up_to_date" THEN reread ELSE store,
                         fetch_end |-> None, outcome |-> why]
    IN  IF ~r.need_update THEN skipped("up_to_date")
        ELSE IF ~HasTradingDay(r.fetch_start, r.fetch_end) THEN skipped("no_session")
        ELSE
        LET locals == Fetch(preferred, stats, AnswersFor(upstream, r.fetch_start, r.fetch_end), name)
            h == HandleResult(locals, r, output_file, store, stock_code, write_ok)
        IN  [calls |-> locals.calls, source_stats |-> locals.source_stats, file |-> h.file,
             store |-> h.store, fetch_end |-> r.fetch_end, outcome |-> h.outcome]

\* The body of the loop for one instrument (lines 157-261) with the providers
\* answering as AnswersFor(upstream, ...) says: the series file, the store and the
\* usage counters afterwards, how the iteration ended, the window fetched and
\* the providers fetch called.
ProcessStockWith(upstream, output_file, store, stats, preferred, stock_code, name, SAFE_END_DATE, UPDATE_MODE, write_ok) ==
    LET r == GetMissingDateRange(output_file, stock_code, Ymd(START_DATE),
                                 SAFE_END_DATE, UPDATE_MODE, store)
        skipped(why) == [calls |-> <<>>, source_stats |-> stats, file |-> output_file,
                         store |-> store, fetch_end |-> None, outcome |-> why]
    IN  IF ~r.need_update THEN skipped("up_to_date")
        ELSE IF ~HasTradingDay(r.fetch_start, r.fetch_end) THEN skipped("no_session")
        ELSE
        LET locals == Fetch(preferred, stats, AnswersFor(upstream, r.fetch_start, r.fetch_end), name)
            h == HandleResult(locals, r, output_file, store, stock_code, write_ok)
        IN  [calls |-> locals.calls, source_stats |-> locals.source_stats, file |-> h.file,
             store |-> h.store, fetch_end |-> r.fetch_end, outcome |-> h.outcome]

\* The body of the loop with the providers of the program reporting mkt.
ProcessStock(output_file, store, stats, preferred, stock_code, name, SAFE_END_DATE, UPDATE_MODE, mkt, net, write_ok) ==
    LET upstream == [kind |-> "market", mkt |-> mkt, net |-> net]
    IN  ProcessStockWith(upstream, output_file, store, stats, preferred, stock_code,
                         name, SAFE_END_DATE, UPDATE_MODE, write_ok)

\* The exchange history of the instrument: unlisted up to some day, then
\* traded or halted day by day.
Markets ==
    {mkt \in [SessionDays -> MarketKinds] :
        \A d, e \in SessionDays : (d < e /\ mkt[e] = "unlisted") => mkt[d] = "unlisted"}

\* An empty data directory, the instrument with some history at the exchange.
Init ==
    /\ InitFetcherIdle /\ InitFilterIdle /\ InitDiskEmpty /\ InitMergeIdle
    /\ InitTraceIdle /\ InitStepIdle
    /\ market \in Markets

\* One run of fetch_historical_data.py over StockList, in a process of its
\* own: a new MetadataManager (loaded by get_stats, line 152) and a new
\* MultiSourceFetcher.
RunScript(SAFE_END_DATE, UPDATE_MODE, net, write_ok) ==
    \E out \in {ProcessStock(files[TheCode], LoadMetadata(Store(None, metadata_file)),
                             ZeroStats, preferred_source, TheCode, stock_name,
                             SAFE_END_DATE, UPDATE_MODE, market, net, write_ok)} :
        /\ files' = [files EXCEPT ![TheCode] = out.file]
        /\ metadata_file' = out.store.file
        /\ cache' = out.store.cache
        /\ source_stats' = out.source_stats
        /\ run' = [calls |-> out.calls, fetch_end |-> out.fetch_end, outcome |-> out.outcome]
        /\ UNCHANGED <<PREFERRED_SOURCE, preferred_source, answers, stock_name, stats_before, fetched>>
        /\ UNCHANGED <<filterVars, mergeVars, envVars, stepVars, resolve_call, store_call>>

Next ==
    \E d \in Days, mode \in UpdateModes, net \in Nets, ok \in BOOLEAN :
        RunScript(Ymd(d), mode, net, ok)

Spec == Init /\ [][Next]_vars

\* ------------------------------------------------------------------ store-level specification
\* The dates the callers store: the first and the last day.
StoreDates == {Ymd(START_DATE), Ymd(MaxDay)}

\* The dicts over the instruments with these dates.
StoreDicts ==
    UNION {[S -> StoreDates] : S \in SUBSET Codes}

InitStore ==
    /\ InitFetcherIdle /\ InitFilterIdle /\ InitMergeIdle /\ InitMarketIdle
    /\ InitTraceIdle /\ InitStepIdle
    /\ files = [c \in Codes |-> Absent]
    /\ metadata_file \in {Absent} \cup StoreDicts
    /\ cache = None

\* One call of the manager ended: the store it leaves and what the caller saw.
StoreReturns(out, call) ==
    /\ cache' = out.store.cache
    /\ metadata_file' = out.store.file
    /\ store_call' = call
    /\ UNCHANGED <<files, run, resolve_call>>
    /\ UNCHANGED <<fetchVars, filterVars, mergeVars, envVars, stepVars>>

StoreSet(stock_code, last_date, attempts) ==
    \E out \in {UpdateLastDateAttempts(Store(cache, metadata_file), stock_code,
                                        last_date, attempts)} :
        StoreReturns(out, [removed |-> {}, attempts |-> attempts, raised |-> out.raised,
                           updates |-> DictSet(EmptyDict, stock_code, last_date),
                           op |-> "set"])

StoreBatchSet(updates, attempts) ==
    \E out \in {BatchUpdate(Store(cache, metadata_file), updates, attempts)} :
        StoreReturns(out, [removed |-> {}, attempts |-> attempts, raised |-> out.raised,
                           updates |-> updates, op |-> "batch_set"])

StoreRemove(stock_code, attempts) ==
    \E out \in {RemoveStock(Store(cache, metadata_file), stock_code, attempts)} :
        StoreReturns(out, [removed |-> {stock_code}, attempts |-> attempts, raised |-> out.raised,
                           updates |-> EmptyDict, op |-> "remove"])

StoreGet(stock_code) ==
    \E loaded \in {LoadMetadata(Store(cache, metadata_file))} :
        StoreReturns([store |-> loaded],
                     [returned |-> GetLastDate(Store(cache, metadata_file), stock_code),
                      stock_code |-> stock_code, op |-> "get"])

NextStore ==
    \/ \E c \in Codes, d \in StoreDates, a \in AttemptOutcomes : StoreSet(c, d, a)
    \/ \E u \in StoreDicts, a \in AttemptOutcomes : StoreBatchSet(u, a)
    \/ \E c \in Codes, a \in AttemptOutcomes : StoreRemove(c, a)
    \/ \E c \in Codes : StoreGet(c)

SpecStore == InitStore /\ [][NextStore]_vars

\* ------------------------------------------------------------------ rebuild-level specification
\* Series files rebuild_from_files may find: none, one that cannot be parsed,
\* one without rows, one with rows.
RebuildFiles ==
    {Absent, Malformed, CsvFile(<<>>), CsvFile(<<SeedRow(START_DATE, "traded")>>),
     CsvFile(<<SeedRow(START_DATE, "traded"), SeedRow(MaxDay, "traded")>>)}

\* The lists of codes handed to rebuild_from_files: codes of the stock list,
\* each once.
CodeLists ==
    {<<>>} \cup {<<c>> : c \in Codes}
        \cup ({<<c, d>> : c, d \in Codes} \ {<<c, c>> : c \in Codes})

InitRebuild ==
    /\ InitFetcherIdle /\ InitFilterIdle /\ InitMergeIdle /\ InitMarketIdle
    /\ InitTraceIdle /\ InitStepIdle
    /\ files \in [Codes -> RebuildFiles]
    /\ metadata_file \in {Absent} \cup StoreDicts
    /\ cache = None

StoreRebuild(stock_codes, attempts) ==
    \E out \in {RebuildFromFiles(Store(cache, metadata_file), files, stock_codes, attempts)} :
        StoreReturns(out, [returned |-> out.returned, attempts |-> attempts,
                           stock_codes |-> stock_codes,
                           before |-> LoadMetadata(Store(cache, metadata_file)).cache,
                           op |-> "rebuild"])

NextRebuild ==
    \/ \E l \in CodeLists, a \in AttemptOutcomes : StoreRebuild(l, a)
    \/ \E c \in Codes : StoreGet(c)

SpecRebuild == InitRebuild /\ [][NextRebuild]_vars

\* ------------------------------------------------------------------ save-level specification
\* Two processes, each with a MetadataManager of its own on the same directory.
Pids == {1, 2}

\* The names temporary files may carry; process id 0 is no process.
TempNames == (Pids \cup {0}) \X Suffixes

\* temp_file before line 76 has run.
Unbound == <<>>

\* retry_delay = 0.1 (line 65), in tenths of a second.
InitialDelay == 1

\* Mutant: the delay stays as it is.
NextDelayConstant(retry_delay) == retry_delay

\* retry_delay *= 2 (line 104)
NextDelay(retry_delay) == retry_delay * 2

\* A process that has just made its MetadataManager (lines 30-32); saved is
\* the mapping it last put in place of .metadata.json, None before, and calls
\* counts the calls of update_last_date made under its process id.
NewProcess(saved, calls) ==
    [calls |-> calls, cache |-> None, attempt |-> 0, saved |-> saved, pc |-> "idle",
     retry_delay |-> 0, temp_file |-> Unbound, slept |-> <<>>]

InitSave ==
    /\ InitFetcherIdle /\ InitFilterIdle /\ InitMergeIdle /\ InitMarketIdle
    /\ InitTraceIdle /\ InitWriterIdle /\ InitBatchIdle /\ InitSessionIdle
    /\ files = [c \in Codes |-> Absent]
    /\ metadata_file \in {Absent, DictSet(EmptyDict, TheCode, Ymd(START_DATE))}
    /\ cache = None
    /\ procs = [p \in Pids |-> NewProcess(None, 0)]
    /\ temp_files = [n \in TempNames |-> Absent]

\* What the directory holds under a name.
FileAt(name) == IF name = Canonical THEN metadata_file ELSE temp_files[name]

\* The file of a name gets a content (Absent: it is removed).
WriteFile(name, content) ==
    IF name = Canonical
    THEN metadata_file' = content /\ UNCHANGED temp_files
    ELSE temp_files' = [temp_files EXCEPT ![name] = content] /\ UNCHANGED metadata_file

\* A step of a process leaves everything but its own record and the two kinds
\* of file as it was.
SaveStep(p, record) ==
    /\ procs' = [procs EXCEPT ![p] = record]
    /\ UNCHANGED <<files, cache, writer, batch, session>>
    /\ UNCHANGED <<fetchVars, filterVars, mergeVars, envVars, traceVars>>

\* update_last_date up to the call of _save_metadata (lines 128-131):
\* the mapping is loaded when the process has none, changed, and kept as cache.
BeginUpdate(p, stock_code, last_date) ==
    /\ procs[p].pc = "idle"
    /\ procs[1].calls + procs[2].calls < MaxSaves
    /\ SaveStep(p, [procs[p] EXCEPT
            !.pc = "open",
            !.calls = @ + 1,
            !.cache = DictSet(LoadMetadata(Store(procs[p].cache, metadata_file)).cache,
                              stock_code, last_date),
            !.attempt = 1,
            !.retry_delay = InitialDelay,
            !.slept = <<>>])
    /\ UNCHANGED <<metadata_file, temp_files>>

\* Lines 76-79: the temporary file is named and opened for writing, which
\* leaves it without content, or open raises.
OpenTemp(p, suffix, ok) ==
    /\ procs[p].pc = "open"
    /\ SaveStep(p, [procs[p] EXCEPT !.pc = IF ok THEN "dump" ELSE "except",
                                     !.temp_file = TempFile(p, suffix)])
    /\ IF ok THEN WriteFile(TempFile(p, suffix), Torn)
        ELSE UNCHANGED <<metadata_file, temp_files>>

\* Lines 79-80: json.dump writes the mapping and the file is closed, or the
\* write raises part way.
Dump(p, ok) ==
    /\ procs[p].pc = "dump"
    /\ SaveStep(p, [procs[p] EXCEPT !.pc = IF ok THEN "replace" ELSE "except"])
    /\ IF ok THEN WriteFile(procs[p].temp_file, procs[p].cache)
        ELSE UNCHANGED <<metadata_file, temp_files>>

\* Lines 83-90: the temporary file must exist; os.replace puts it in place of
\* .metadata.json in one step and _save_metadata returns, or it raises.
Replace(p, ok) ==
    /\ procs[p].pc = "replace"
    /\ IF ok /\ FileAt(procs[p].temp_file) # Absent
        THEN /\ SaveStep(p, [procs[p] EXCEPT !.pc = "idle", !.saved = procs[p].cache,
                                             !.retry_delay = 0, !.slept = <<>>])
             /\ metadata_file' = FileAt(procs[p].temp_file)
             /\ temp_files' = IF procs[p].temp_file = Canonical THEN temp_files
                              ELSE [temp_files EXCEPT ![procs[p].temp_file] = Absent]
        ELSE /\ SaveStep(p, [procs[p] EXCEPT !.pc = "except"])
             /\ UNCHANGED <<metadata_file, temp_files>>

\* Lines 92-104: the except clause removes the temporary file when there is
\* one; the last attempt logs and returns, the others sleep retry_delay,
\* double it and go round again.  slept lists the delays slept in this call.
Except(p) ==
    /\ procs[p].pc = "except"
    /\ SaveStep(p, [procs[p] EXCEPT
            !.pc = IF procs[p].attempt = max_retries THEN "idle" ELSE "open",
            !.attempt = IF procs[p].attempt = max_retries THEN 0 ELSE @ + 1,
            !.retry_delay = IF procs[p].attempt = max_retries THEN 0 ELSE NextDelay(@),
            !.slept = IF procs[p].attempt = max_retries THEN <<>>
                      ELSE Append(@, procs[p].retry_delay)])
    /\ IF FileAt(procs[p].temp_file) # Absent
        THEN WriteFile(procs[p].temp_file, Absent)
        ELSE UNCHANGED <<metadata_file, temp_files>>

\* The process is stopped where it is (a KeyboardInterrupt is no Exception
\* and passes the except clause; a kill runs nothing): the files stay as they
\* are, and the script is started again as a new process.
Interrupt(p) ==
    /\ procs[p].pc # "idle"
    /\ SaveStep(p, NewProcess(procs[p].saved, procs[p].calls))
    /\ UNCHANGED <<metadata_file, temp_files>>

NextSave ==
    \E p \in Pids :
        \/ \E c \in Codes : BeginUpdate(p, c, Ymd(MaxDay))
        \/ \E n \in Suffixes, ok \in BOOLEAN : OpenTemp(p, n, ok)
        \/ \E ok \in BOOLEAN : Dump(p, ok)
        \/ \E ok \in BOOLEAN : Replace(p, ok)
        \/ Except(p)
        \/ Interrupt(p)

SpecSave == InitSave /\ [][NextSave]_vars

\* The statements of _save_metadata a process is about to run.  A process
\* that is not stopped goes on to its next statement, and a sleep ends.
SaveProgress(p) ==
    \/ \E n \in Suffixes, ok \in BOOLEAN : OpenTemp(p, n, ok)
    \/ \E ok \in BOOLEAN : Dump(p, ok)
    \/ \E ok \in BOOLEAN : Replace(p, ok)
    \/ Except(p)

\* One process alone makes the calls, and may be stopped and started again.
NextPersist ==
    \/ \E c \in Codes : BeginUpdate(1, c, Ymd(MaxDay))
    \/ SaveProgress(1)
    \/ Interrupt(1)

SpecPersist == InitSave /\ [][NextPersist]_vars /\ WF_vars(SaveProgress(1))

\* ------------------------------------------------------------------ resolver-level specification
\* Series files the resolver may find: none, or valid rows on some days.
ResolveFiles ==
    {Absent} \cup
    {CsvFile([i \in DOMAIN SortedDays(S) |-> SeedRow(SortedDays(S)[i], "traded")]) :
        S \in SUBSET Days \ {{}}}

\* Metadata files it may find: none, one without the instrument, one with a
\* last date of it in either format found in the program.
ResolveMetadata ==
    {Absent, DictSet(EmptyDict, "600519", Ymd(START_DATE))}
        \cup {DictSet(EmptyDict, TheCode, Ymd(d)) : d \in Days}
        \cup {DictSet(EmptyDict, TheCode, Dash(d)) : d \in Days}

InitResolve ==
    /\ InitFetcherIdle /\ InitFilterIdle /\ InitMergeIdle /\ InitMarketIdle
    /\ InitTraceIdle /\ InitStepIdle
    /\ \E f \in ResolveFiles : files = [c \in Codes |-> IF c = TheCode THEN f ELSE Absent]
    /\ metadata_file \in ResolveMetadata
    /\ cache = None

\* get_missing_date_range is called for the instrument; get_last_date, when
\* reached, loads the cache.
ResolveCall(start_date, end_date, update_mode) ==
    /\ resolve_call = None
    /\ resolve_call' =
          [result |-> GetMissingDateRange(files[TheCode], TheCode, start_date, end_date,
                                          update_mode, Store(cache, metadata_file)),
           start_date |-> start_date, end_date |-> end_date, update_mode |-> update_mode]
    /\ cache' = IF files[TheCode] # Absent /\ update_mode = "tail"
                THEN LoadMetadata(Store(cache, metadata_file)).cache
                ELSE cache
    /\ UNCHANGED <<files, metadata_file, run, store_call>>
    /\ UNCHANGED <<fetchVars, filterVars, mergeVars, envVars, stepVars>>

NextResolve ==
    \E s \in Days, e \in Days, mode \in UpdateModes :
        s <= e /\ ResolveCall(Ymd(s), Ymd(e), mode)

SpecResolve == InitResolve /\ [][NextResolve]_vars

\* ------------------------------------------------------------------ iteration-level specification
\* One iteration of the main loop on a data directory an earlier run left,
\* with providers that keep to their contract only: each raises, returns
\* None, or returns a frame, whatever the window.
IterAnswers ==
    {[kind |-> "raise", error |-> "timeout"], [kind |-> "none"],
     [rows |-> <<ProviderRow(MergeDays, TRUE)>>, kind |-> "frame"],
     [rows |-> <<ProviderRow(MergeDays, FALSE)>>, kind |-> "frame"]}

InitIter ==
    /\ InitFetcherIdle /\ InitFilterIdle /\ InitMergeIdle /\ InitMarketIdle
    /\ InitTraceIdle /\ InitStepIdle
    /\ \E f \in SeedFiles : files = [c \in Codes |-> IF c = TheCode THEN f ELSE Absent]
    /\ metadata_file \in SeedMetadata
    /\ cache = None

IterCall(SAFE_END_DATE, UPDATE_MODE, provider_answers, write_ok) ==
    LET upstream == [kind |-> "given", provider_answers |-> provider_answers]
    IN  \E out \in {ProcessStockWith(upstream, files[TheCode],
                                     LoadMetadata(Store(None, metadata_file)),
                                     ZeroStats, preferred_source, TheCode, stock_name,
                                     SAFE_END_DATE, UPDATE_MODE, write_ok)} :
            /\ files' = [files EXCEPT ![TheCode] = out.file]
            /\ metadata_file' = out.store.file
            /\ cache' = out.store.cache
            /\ source_stats' = out.source_stats
            /\ run' = [calls |-> out.calls, fetch_end |-> out.fetch_end, outcome |-> out.outcome]
            /\ UNCHANGED <<PREFERRED_SOURCE, preferred_source, answers, stock_name, stats_before, fetched>>
            /\ UNCHANGED <<filterVars, mergeVars, envVars, stepVars, resolve_call, store_call>>

NextIter ==
    /\ run = None
    /\ \E d \in Days, mode \in UpdateModes, a \in [SourceNames -> IterAnswers],
          ok \in BOOLEAN :
            IterCall(Ymd(d), mode, a, ok)

SpecIter == InitIter /\ [][NextIter]_vars

\* ------------------------------------------------------------------ batch-level specification
\* stock_list: the rows of the stock list the loop goes over, in order.
BatchList == <<"000001", "600519">>

\* What df.to_csv of save_dataframe does when an iteration comes to write:
\* it writes, or raises FileNotFoundError (the directory is gone) or another
\* OSError.
WriteFaults == {"none", "FileNotFoundError", "Exception"}

\* What a provider does in an iteration: it raises, returns None, or returns a
\* frame with a valid row.
BatchAnswers ==
    {[kind |-> "raise", error |-> "timeout"], [kind |-> "none"],
     [rows |-> <<ProviderRow(MergeDays, TRUE)>>, kind |-> "frame"]}

\* Series files the batch may find: none, one that cannot be parsed (its read
\* raises EmptyDataError), one with a row.
BatchFiles == {Absent, Malformed, CsvFile(<<SeedRow(START_DATE, "traded")>>)}

\* Mutant: an error in an iteration ends the loop.
AfterIterationErrorEndsLoop(b, stock_code, outcome) ==
    IF outcome \in {"failure", "error"}
    THEN [b EXCEPT !.pc = "aborted", !.processed = Append(@, stock_code)]
    ELSE [b EXCEPT !.idx = @ + 1, !.processed = Append(@, stock_code),
                   !.skip_count = IF outcome \in {"up_to_date", "no_session", "no_data"}
                                  THEN @ + 1 ELSE @]

\* The counters and failed_stocks after an iteration that ended as outcome
\* (lines 179-192, 213-227, 266-277), and the loop going on to the next row.
AfterIteration(b, stock_code, outcome) ==
    [b EXCEPT
        !.idx = @ + 1,
        !.processed = Append(@, stock_code),
        !.skip_count = IF outcome \in {"up_to_date", "no_session", "no_data"}
                       THEN @ + 1 ELSE @,
        !.fail_count = IF outcome \in {"failure", "error"} THEN @ + 1 ELSE @,
        !.failed_stocks = IF outcome \in {"failure", "error"}
                          THEN Append(@, stock_code) ELSE @]

\* Lines 139-155: the counters at zero, the list empty, the loop before its
\* first row; SAFE_END_DATE and UPDATE_MODE are fixed for the run.
InitBatch ==
    /\ InitFetcherIdle /\ InitFilterIdle /\ InitMergeIdle /\ InitMarketIdle
    /\ InitTraceIdle /\ InitProcsIdle /\ InitWriterIdle /\ InitSessionIdle
    /\ files \in [Codes -> BatchFiles]
    /\ metadata_file = Absent
    /\ cache = EmptyDict
    /\ \E d \in {START_DATE, MaxDay}, mode \in UpdateModes :
          batch = [pc |-> "loop", SAFE_END_DATE |-> Ymd(d), UPDATE_MODE |-> mode, processed |-> <<>>,
                   idx |-> 1, skip_count |-> 0, fail_count |-> 0,
                   failed_stocks |-> <<>>]

\* One iteration of the loop (lines 156-277) for the row at idx, with what the
\* providers answer and what the write of the series does.
BatchIteration(provider_answers, fault) ==
    /\ batch.pc = "loop"
    /\ batch.idx <= Len(BatchList)
    /\ LET stock_code == BatchList[batch.idx]
           upstream == [kind |-> "given", provider_answers |-> provider_answers]
       IN  \E out \in {ProcessStockWith(upstream, files[stock_code],
                                         Store(cache, metadata_file), source_stats,
                                         preferred_source, stock_code, stock_name,
                                         batch.SAFE_END_DATE, batch.UPDATE_MODE, TRUE)} :
              IF out.outcome = "merged" /\ fault # "none"
              THEN /\ batch' = AfterIteration(batch, stock_code, "error")
                   /\ source_stats' = out.source_stats
                   /\ UNCHANGED <<files, metadata_file, cache>>
              ELSE /\ batch' = AfterIteration(batch, stock_code, out.outcome)
                   /\ source_stats' = out.source_stats
                   /\ files' = [files EXCEPT ![stock_code] = out.file]
                   /\ metadata_file' = out.store.file
                   /\ cache' = out.store.cache
    /\ UNCHANGED <<PREFERRED_SOURCE, preferred_source, answers, stock_name, stats_before, fetched>>
    /\ UNCHANGED <<filterVars, mergeVars, envVars, traceVars>>
    /\ UNCHANGED <<procs, temp_files, writer, session>>

\* Lines 263-265: the user interrupts during an iteration; the loop is left.
BatchInterrupt ==
    /\ batch.pc = "loop"
    /\ batch.idx <= Len(BatchList)
    /\ batch' = [batch EXCEPT !.pc = "interrupted"]
    /\ UNCHANGED <<fetchVars, filterVars, diskVars, mergeVars, envVars, traceVars>>
    /\ UNCHANGED <<procs, temp_files, writer, session>>

\* Lines 280-334: the rows are used up; the statistics are reported and
\* failed_stocks is written to failed_stocks.csv.
BatchEnd ==
    /\ batch.pc = "loop"
    /\ batch.idx > Len(BatchList)
    /\ batch' = [batch EXCEPT !.pc = "done"]
    /\ UNCHANGED <<fetchVars, filterVars, diskVars, mergeVars, envVars, traceVars>>
    /\ UNCHANGED <<procs, temp_files, writer, session>>

NextIteration ==
    \E a \in [SourceNames -> BatchAnswers], fault \in WriteFaults :
        BatchIteration(a, fault)

NextBatch == NextIteration \/ BatchInterrupt \/ BatchEnd

\* The interpreter goes on with the loop as long as it is not interrupted.
SpecBatch == InitBatch /\ [][NextBatch]_vars /\ WF_vars(NextIteration \/ BatchEnd)

\* ------------------------------------------------------------------ scope-level specification
\* What bs.login() does when _fetch_from_baostock or BaostockFetcher.fetch
\* calls it: error_code '0', another error_code, or an exception.
LoginOutcomes == {"ok", "refused", "raise"}

\* What can leave the loop other than its end and the interrupt caught in
\* the try: an exception, or an interrupt, outside the try (lines 157-167).
Escapes == {"Exception", "KeyboardInterrupt"}

\* Mutant: close leaves the session as it is.
CloseKeepsSession(sess) == sess

\* MultiSourceFetcher.close with BaostockFetcher.logout: bs.logout() is called
\* when there is a BaostockFetcher and it is logged in.
Close(sess) ==
    IF sess.baostock_fetcher /\ sess.is_logged_in
    THEN [sess EXCEPT !.is_logged_in = FALSE, !.open = FALSE, !.logouts = @ + 1]
    ELSE sess

\* _fetch_from_baostock and the login in BaostockFetcher.fetch (lines 198-205,
\* baostock_fetcher.py 42-52, 101-103) when fetch calls baostock.
CallBaostock(sess, login) ==
    IF sess.is_logged_in THEN [sess EXCEPT !.baostock_fetcher = TRUE]
    ELSE [sess EXCEPT !.baostock_fetcher = TRUE,
                      !.is_logged_in = (login = "ok"),
                      !.open = (login = "ok")]

\* `with MultiSourceFetcher(...) as multi_fetcher:` entered (line 155): no
\* BaostockFetcher yet, no session.
InitScope ==
    /\ InitFetcherIdle /\ InitFilterIdle /\ InitMergeIdle /\ InitMarketIdle
    /\ InitTraceIdle /\ InitProcsIdle /\ InitWriterIdle
    /\ files \in [Codes -> BatchFiles]
    /\ metadata_file = Absent
    /\ cache = EmptyDict
    /\ \E d \in {START_DATE, MaxDay}, mode \in UpdateModes :
          batch = [pc |-> "loop", SAFE_END_DATE |-> Ymd(d), UPDATE_MODE |-> mode, processed |-> <<>>,
                   idx |-> 1, skip_count |-> 0, fail_count |-> 0,
                   failed_stocks |-> <<>>]
    /\ session = [pc |-> "inside", baostock_fetcher |-> FALSE, is_logged_in |-> FALSE,
                  open |-> FALSE, logouts |-> 0, exc |-> "none", propagated |-> "none"]

\* An iteration of the loop inside the scope; when fetch calls baostock the
\* session is opened as bs.login() allows. A frame from baostock needs a login.
ScopeIteration(provider_answers, fault, login) ==
    /\ batch.pc = "loop"
    /\ batch.idx <= Len(BatchList)
    /\ provider_answers["baostock"].kind = "frame" => (session.is_logged_in \/ login = "ok")
    /\ LET stock_code == BatchList[batch.idx]
           upstream == [kind |-> "given", provider_answers |-> provider_answers]
       IN  \E out \in {ProcessStockWith(upstream, files[stock_code],
                                         Store(cache, metadata_file), source_stats,
                                         preferred_source, stock_code, stock_name,
                                         batch.SAFE_END_DATE, batch.UPDATE_MODE, TRUE)} :
              /\ session' = IF \E i \in DOMAIN out.calls : out.calls[i] = "baostock"
                            THEN CallBaostock(session, login) ELSE session
              /\ IF out.outcome = "merged" /\ fault # "none"
                 THEN /\ batch' = AfterIteration(batch, stock_code, "error")
                      /\ source_stats' = out.source_stats
                      /\ UNCHANGED <<files, metadata_file, cache>>
                 ELSE /\ batch' = AfterIteration(batch, stock_code, out.outcome)
                      /\ source_stats' = out.source_stats
                      /\ files' = [files EXCEPT ![stock_code] = out.file]
                      /\ metadata_file' = out.store.file
                      /\ cache' = out.store.cache
    /\ UNCHANGED <<PREFERRED_SOURCE, preferred_source, answers, stock_name, stats_before, fetched>>
    /\ UNCHANGED <<filterVars, mergeVars, envVars, traceVars>>
    /\ UNCHANGED <<procs, temp_files, writer>>

ScopeStep ==
    /\ UNCHANGED <<fetchVars, filterVars, diskVars, mergeVars, envVars, traceVars>>
    /\ UNCHANGED <<procs, temp_files, writer>>

\* Lines 263-265: the interrupt caught in the try leaves the loop by break.
ScopeInterrupt ==
    /\ batch.pc = "loop"
    /\ batch.idx <= Len(BatchList)
    /\ batch' = [batch EXCEPT !.pc = "interrupted"]
    /\ UNCHANGED session
    /\ ScopeStep

\* An exception or an interrupt outside the try leaves the loop and the with
\* block.
ScopeEscape(exc) ==
    /\ batch.pc = "loop"
    /\ batch.idx <= Len(BatchList)
    /\ batch' = [batch EXCEPT !.pc = "raised"]
    /\ session' = [session EXCEPT !.exc = exc]
    /\ ScopeStep

\* The rows are used up: get_stats (line 280) and the end of the with block.
ScopeLoopEnd ==
    /\ batch.pc = "loop"
    /\ batch.idx > Len(BatchList)
    /\ batch' = [batch EXCEPT !.pc = "done"]
    /\ UNCHANGED session
    /\ ScopeStep

\* __exit__ (lines 233-236): close, then False is returned, so an exception
\* that left the block goes on.
ScopeExit ==
    /\ batch.pc \in {"done", "interrupted", "raised"}
    /\ session.pc = "inside"
    /\ session' = [Close(session) EXCEPT !.pc = "exited", !.propagated = session.exc]
    /\ UNCHANGED batch
    /\ ScopeStep

NextScope ==
    \/ \E a \in [SourceNames -> BatchAnswers], fault \in WriteFaults, login \in LoginOutcomes :
          ScopeIteration(a, fault, login)
    \/ ScopeInterrupt
    \/ \E exc \in Escapes : ScopeEscape(exc)
    \/ ScopeLoopEnd
    \/ ScopeExit

SpecScope == InitScope /\ [][NextScope]_vars

\* ------------------------------------------------------------------ runs over a malformed series
\* The series file of the instrument cannot be parsed; the metadata file is
\* missing or holds a last date of the instrument.
InitCorrupt ==
    /\ InitFetcherIdle /\ InitFilterIdle /\ InitMergeIdle
    /\ InitTraceIdle /\ InitStepIdle
    /\ files = [c \in Codes |-> IF c = TheCode THEN Malformed ELSE Absent]
    /\ metadata_file \in {Absent, DictSet(EmptyDict, TheCode, Ymd(START_DATE))}
    /\ cache = None
    /\ market \in Markets

\* The resolver is called on its own on the data directory as found, or the
\* script runs, any number of times.
NextCorrupt ==
    \/ run = None /\ NextResolve
    \/ resolve_call = None /\ Next

SpecCorrupt == InitCorrupt /\ [][NextCorrupt]_vars

\* ------------------------------------------------------------------ maintenance-level specification
\* sorted(stock_files): the codes of the directory in the order of their names.
SortedCodes == <<"000001", "600519">>

\* clean_suspended_data.py lines 78-88: the file is read, has rows, and the
\* filter removes some of them.
HasSuspended(file) ==
    /\ file # Absent
    /\ file # Malformed
    /\ ReadCsv(file) # <<>>
    /\ FilterSuspended(ReadCsv(file)).removed > 0

\* Lines 114-120 with dry_run false: the filtered frame is written over the
\* file, its date strings as they were read, unless no row is left.
CleanFile(file) ==
    IF HasSuspended(file)
    THEN IF FilterSuspended(ReadCsv(file)).df # <<>>
         THEN CsvFile(FilterSuspended(ReadCsv(file)).df)
         ELSE file
    ELSE file

\* scan_and_clean_suspended_data(data_dir, dry_run=False): the directory
\* afterwards, the codes of stats['details'] and stats['files_cleaned'].
ScanAndClean(data_dir) ==
    LET listed(c) == HasSuspended(data_dir[c])
    IN  [file |-> [c \in Codes |-> CleanFile(data_dir[c])],
         details |-> SelectSeq(SortedCodes, listed),
         files_cleaned |-> Cardinality({c \in Codes : CleanFile(data_dir[c]) # data_dir[c]})]

\* df['date'].max() of a frame read from a series file: the date column holds
\* the strings of the file, and the largest string is returned as it is.
DateColumnMax(rows) ==
    CHOOSE d \in {rows[i].date : i \in DOMAIN rows} :
        \A i \in DOMAIN rows : StrGE(d, rows[i].date)

\* update_metadata_after_cleaning(data_dir, cleaned_stocks) with a manager of
\* its own: the store it leaves.
UpdateMetadataAfterCleaning(store, data_dir, cleaned_stocks, write_ok) ==
    LET F[i \in 0 .. Len(cleaned_stocks)] ==
            IF i = 0 THEN store
            ELSE IF HasSeries(data_dir, cleaned_stocks[i])
            THEN UpdateLastDate(F[i - 1], cleaned_stocks[i],
                                DateColumnMax(ReadCsv(data_dir[cleaned_stocks[i]])), write_ok)
            ELSE F[i - 1]
    IN  F[Len(cleaned_stocks)]

InitClean ==
    /\ InitFetcherIdle /\ InitFilterIdle /\ InitMergeIdle /\ InitMarketIdle
    /\ InitTraceIdle /\ InitStepIdle
    /\ \E f \in SeedFiles : files = [c \in Codes |-> IF c = TheCode THEN f ELSE Absent]
    /\ metadata_file \in SeedMetadata
    /\ cache = None

\* The batches the core merges between two runs of a tool: one row at most.
CleanFrames == {df \in MergeFrames : Len(df) <= 1}

\* The core merges a batch for TheCode, as the script does after a fetch.
CleanMerge(df_new, need_full_refresh, fetch_end_date) ==
    /\ MergeCall(df_new, need_full_refresh, fetch_end_date, TRUE)
    /\ UNCHANGED <<fetchVars, filterVars, envVars, stepVars, traceVars>>

\* The script of the core ends; the next one starts with no cache.
CleanRunEnds ==
    /\ cache # None
    /\ cache' = None
    /\ UNCHANGED <<files, metadata_file>>
    /\ UNCHANGED <<fetchVars, filterVars, mergeVars, envVars, stepVars, traceVars>>

\* clean_suspended_data.py --clean, a process of its own (main, lines 251-258).
CleanTool(write_ok) ==
    \E scan \in {ScanAndClean(files)} :
        /\ files' = scan.file
        /\ metadata_file' =
              IF scan.files_cleaned > 0
              THEN UpdateMetadataAfterCleaning(Store(None, metadata_file), scan.file,
                                               scan.details, write_ok).file
              ELSE metadata_file
        /\ store_call' = [stock_codes |-> scan.details, op |-> "clean"]
        /\ UNCHANGED <<cache, run, resolve_call>>
        /\ UNCHANGED <<fetchVars, filterVars, mergeVars, envVars, stepVars>>

\* rebuild_metadata.py, a process of its own.
CleanRebuild(stock_codes, attempts) ==
    \E out \in {RebuildFromFiles(Store(None, metadata_file), files, stock_codes, attempts)} :
        /\ metadata_file' = out.store.file
        /\ store_call' = [returned |-> out.returned, stock_codes |-> stock_codes,
                          op |-> "rebuild"]
        /\ UNCHANGED <<files, cache, run, resolve_call>>
        /\ UNCHANGED <<fetchVars, filterVars, mergeVars, envVars, stepVars>>

NextClean ==
    \/ \E df_new \in CleanFrames, full \in BOOLEAN, e \in MergeEnds :
          CleanMerge(df_new, full, e)
    \/ CleanRunEnds
    \/ \E ok \in BOOLEAN : CleanTool(ok)
    \/ \E ok \in BOOLEAN : CleanRebuild(<<TheCode>>, [i \in 1 .. max_retries |-> ok])

SpecClean == InitClean /\ [][NextClean]_vars

\* ------------------------------------------------------------------ runs stopped inside a merge
\* Mutant: the last date is stored before the series is written.
InterruptedMergeWatermarkFirst(output_file, store, out) ==
    [file |-> output_file, store |-> out.store]

\* merge_and_save_data stopped between save_dataframe (data_saver.py lines 129,
\* 133) and update_last_date (lines 140-149): the series is written, the store
\* is as it was.  out is what the iteration leaves when it is not stopped.
InterruptedMerge(output_file, store, out) ==
    [file |-> out.file, store |-> store]

\* A run in tail mode whose iteration reaches a merge that writes, and that is
\* stopped inside it; the process is gone afterwards.  resolve_call keeps what
\* get_missing_date_range returned to the run, merge_call what the run leaves
\* when it is not stopped and, as before, the series file and the metadata
\* file it found.
CrashRun(SAFE_END_DATE, net) ==
    \E loaded \in {LoadMetadata(Store(None, metadata_file))} :
    \E out \in {ProcessStock(files[TheCode], loaded, ZeroStats, preferred_source, TheCode,
                             stock_name, SAFE_END_DATE, "tail", market, net, TRUE)} :
        /\ out.outcome = "merged"
        /\ \E at \in {InterruptedMerge(files[TheCode], loaded, out)} :
              /\ files' = [files EXCEPT ![TheCode] = at.file]
              /\ metadata_file' = at.store.file
        /\ cache' = None
        /\ source_stats' = out.source_stats
        /\ run' = [calls |-> out.calls, fetch_end |-> out.fetch_end, outcome |-> "interrupted"]
        /\ resolve_call' =
              [result |-> GetMissingDateRange(files[TheCode], TheCode, Ymd(START_DATE),
                                              SAFE_END_DATE, "tail", loaded),
               start_date |-> Ymd(START_DATE), end_date |-> SAFE_END_DATE,
               update_mode |-> "tail"]
        /\ merge_call' = [file |-> out.file, store |-> out.store,
                          before |-> <<files[TheCode], metadata_file>>]
        /\ UNCHANGED <<PREFERRED_SOURCE, preferred_source, answers, stock_name, stats_before, fetched>>
        /\ UNCHANGED <<filterVars, envVars, stepVars, store_call>>

\* Runs that end, until one is stopped; then runs in tail mode that end.
NextCrash ==
    \/ /\ merge_call = None
       /\ \E d \in Days, mode \in UpdateModes, net \in {"up", "all_down"} :
             RunScript(Ymd(d), mode, net, TRUE)
    \/ /\ merge_call = None
       /\ \E d \in Days, net \in Nets : CrashRun(Ymd(d), net)
    \/ /\ merge_call # None
       /\ \E d \in Days, net \in Nets : RunScript(Ymd(d), "tail", net, TRUE)

SpecCrash == Init /\ [][NextCrash]_vars

\* ------------------------------------------------------------------ runs with any preferred source
\* The script run from an empty data directory with PREFERRED_SOURCE of
\* config.py set to any of the three sources.
InitSources ==
    /\ PREFERRED_SOURCE \in SourceNames
    /\ preferred_source = InitPreferred(PREFERRED_SOURCE)
    /\ source_stats = ZeroStats
    /\ answers = NoAnswers
    /\ stock_name = "PingAn"
    /\ stats_before = ZeroStats
    /\ fetched = None
    /\ InitFilterIdle /\ InitDiskEmpty /\ InitMergeIdle
    /\ InitTraceIdle /\ InitStepIdle
    /\ market \in Markets

NextSources ==
    \E d \in Days, mode \in UpdateModes, net \in {"up", "all_down"} :
        RunScript(Ymd(d), mode, net, TRUE)

SpecSources == InitSources /\ [][NextSources]_vars

\* ------------------------------------------------------------------ claims on fetch
\* The attempt order of the fetcher of the current state, and "every provider
\* ahead of position i raised".
Order == AttemptOrder(preferred_source)
AllRaiseBefore(i) == \A j \in 1..(i - 1) : answers[Order[j]].kind = "raise"

\* C1: when the first provider of the attempt order that does not raise returns
\* None or an empty frame, fetch returns (None, 'no_data') and the providers
\* invoked are exactly those up to it: no later provider is called.
C1_EmptyAnswerShortCircuits ==
    fetched # None =>
        \A i \in 1..Len(Order) :
            (AllRaiseBefore(i) /\ IsEmptyAnswer(answers[Order[i]]))
                => /\ fetched.result.source = "no_data"
                   /\ fetched.result.data = None
                   /\ fetched.calls = SubSeq(Order, 1, i)

\* C1 witness: fetch returned no_data although a provider later in the order
\* would have returned rows.
C1_Witness ==
    /\ fetched # None
    /\ fetched.result.source = "no_data"
    /\ \E i \in 1..Len(Order) :
          /\ i > Len(fetched.calls)
          /\ answers[Order[i]].kind = "frame"
          /\ answers[Order[i]].rows # <<>>

\* C2: when every provider ahead of P raises and P returns rows, fetch returns
\* P's rows (with the name column) and source = P, P's counter grew by one, no
\* other counter changed, and no provider after P was called.
C2_FailoverSuccess ==
    fetched # None =>
        \A i \in 1..Len(Order) :
            LET P == Order[i] IN
            (AllRaiseBefore(i) /\ ~answers[P].kind = "raise" /\ ~IsEmptyAnswer(answers[P]))
                => /\ fetched.result.source = P
                   /\ fetched.result.data # None
                   /\ Len(fetched.result.data.rows) = Len(answers[P].rows)
                   /\ \A k \in 1..Len(answers[P].rows) :
                         /\ fetched.result.data.rows[k].date = answers[P].rows[k].date
                         /\ fetched.result.data.rows[k].volume = answers[P].rows[k].volume
                         /\ fetched.result.data.rows[k].amount = answers[P].rows[k].amount
                         /\ fetched.result.data.rows[k].name = stock_name
                   /\ source_stats[P] = stats_before[P] + 1
                   /\ \A s \in SourceNames \ {P} : source_stats[s] = stats_before[s]
                   /\ fetched.calls = SubSeq(Order, 1, i)

\* C2 witness: the first provider raised and the second one delivered.
C2_Witness ==
    /\ fetched # None
    /\ answers[Order[1]].kind = "raise"
    /\ fetched.result.source = Order[2]
    /\ fetched.result.data # None
    /\ answers[Order[3]].kind = "frame"

\* C3: fetch returns (None, None) exactly when every provider raised; then every
\* provider was called once, in order, one error summary per provider was
\* recorded, and no usage counter changed.
C3_FailureIffAllRaise ==
    fetched # None =>
        LET all_raise == \A s \in SourceNames : answers[s].kind = "raise"
            failure == fetched.result.source = NoSource /\ fetched.result.data = None
        IN  /\ failure <=> all_raise
            /\ all_raise =>
                  /\ fetched.calls = Order
                  /\ fetched.failed_sources =
                        [i \in 1..Len(Order) |-> <<Order[i], answers[Order[i]].error>>]
                  /\ source_stats = stats_before

\* C3 witness: a call in which all three providers raised.
C3_Witness ==
    /\ fetched # None
    /\ \A s \in SourceNames : answers[s].kind = "raise"
    /\ Len(fetched.calls) = 3

\* C29: the providers fetch calls are a beginning of: the configured preferred
\* provider (baostock when the configured name is none of the three), then the
\* other providers in the order baostock, akshare, yfinance; no provider is
\* called twice in one fetch.
C29_AttemptOrderPreferredFirst ==
    fetched # None =>
        LET known == {"baostock", "akshare", "yfinance"}
            first == IF PREFERRED_SOURCE \in known THEN PREFERRED_SOURCE ELSE "baostock"
            expected == <<first>> \o SelectSeq(<<"baostock", "akshare", "yfinance">>,
                                               LAMBDA s : s # first)
        IN  /\ Len(fetched.calls) \in 1 .. 3
            /\ fetched.calls = SubSeq(expected, 1, Len(fetched.calls))
            /\ \A i, j \in DOMAIN fetched.calls :
                    i # j => fetched.calls[i] # fetched.calls[j]

\* C29 witness: yfinance is configured and all three providers were called.
C29_Witness ==
    /\ fetched # None
    /\ PREFERRED_SOURCE = "yfinance"
    /\ fetched.calls = <<"yfinance", "baostock", "akshare">>

\* ------------------------------------------------------------------ claims on filter_suspended_trading_data
\* C8: filter_suspended_trading_data returns exactly the rows of its input whose
\* volume and amount are both present and strictly positive, in their original
\* order; every row returned has volume > 0 and amount > 0; the count returned
\* is the length of the input minus the length of the output.
C8_FilterKeepsExactlyTraded ==
    filter_out # None =>
        LET present_positive(r) ==
                /\ r.volume # NA /\ r.amount # NA
                /\ r.volume.num > 0 /\ r.amount.num > 0
            kept == {i \in DOMAIN filter_in : present_positive(filter_in[i])}
            \* the i-th kept position of the input, in input order
            nth[k \in 0..Cardinality(kept)] ==
                IF k = 0 THEN 0
                ELSE CHOOSE i \in kept : i > nth[k - 1] /\ \A j \in kept : j > nth[k - 1] => i <= j
        IN  /\ Len(filter_out.df) = Cardinality(kept)
            /\ \A k \in DOMAIN filter_out.df : filter_out.df[k] = filter_in[nth[k]]
            /\ \A k \in DOMAIN filter_out.df : present_positive(filter_out.df[k])
            /\ filter_out.removed = Len(filter_in) - Len(filter_out.df)

\* A frame was filtered whose first row had a positive volume and no amount
\* and whose second row stayed.
C8_Witness ==
    /\ filter_out # None
    /\ Len(filter_in) = 2
    /\ filter_in[1].volume = Num(100) /\ filter_in[1].amount = NA
    /\ filter_out.df = <<filter_in[2]>>
    /\ filter_out.removed = 1

\* ------------------------------------------------------------------ claims on merge_and_save_data
\* The dates of a series file, as days.
FileDays(file) == [i \in DOMAIN file.rows |-> file.rows[i].date.day]
StrictlyAscending(days) == \A i, j \in DOMAIN days : i < j => days[i] < days[j]
\* The filtered batch of the merge made last.
NewFiltered == FilterSuspended(merge_call.df_new).df
\* The merge made last took the incremental branch.
WasIncremental ==
    /\ merge_call # None
    /\ NewFiltered # <<>>
    /\ merge_call.before # Absent
    /\ ~merge_call.need_full_refresh
\* What get_last_date returns in the process that made the merge.
Watermark == GetLastDate(Store(cache, metadata_file), TheCode)

\* C5 (as stated): after any sequence of merges the persisted series has unique
\* dates in strictly ascending order.
C5_SeriesStrictlyAscending ==
    files[TheCode] # Absent => StrictlyAscending(FileDays(files[TheCode]))

\* C6 (as stated): merging the same batch twice with need_full_refresh false
\* leaves the series that merging it once left.
C6_MergeTwiceSameAsOnce ==
    (/\ merge_call # None
     /\ merge_call.once # None
     /\ ~merge_call.need_full_refresh)
        => files[TheCode] = merge_call.once

\* C7 (as stated): in an incremental merge, for a date the persisted series
\* already held and the new filtered batch holds too, the row persisted for
\* that date afterwards is the one of the new batch.
C7_LastWriteWins ==
    WasIncremental =>
        \A i \in DOMAIN merge_call.before.rows :
            LET d == merge_call.before.rows[i].date
            IN  (\E k \in DOMAIN NewFiltered : NewFiltered[k].date.day = d.day)
                    => \A j \in DOMAIN files[TheCode].rows :
                          files[TheCode].rows[j].date = d
                              => \E k \in DOMAIN NewFiltered :
                                    files[TheCode].rows[j] =
                                        [NewFiltered[k] EXCEPT !.date = d]

\* C7 (amended): in an incremental merge, for a date at which the persisted
\* series held a valid row and the new filtered batch holds a row too, the
\* series afterwards holds exactly one row of that date and it is the row the
\* series held before (the first occurrence is kept); the row of the new batch
\* is dropped.
C7_ExistingRowKept ==
    WasIncremental =>
        \A i \in DOMAIN merge_call.before.rows :
            LET old == merge_call.before.rows[i]
            IN  (/\ IsTraded(old)
                 /\ \E k \in DOMAIN NewFiltered : NewFiltered[k].date.day = old.date.day)
                    => /\ \E j \in DOMAIN files[TheCode].rows : files[TheCode].rows[j] = old
                       /\ \A j \in DOMAIN files[TheCode].rows :
                              files[TheCode].rows[j].date = old.date
                                  => files[TheCode].rows[j] = old

\* An incremental merge was made whose batch held a valid row, under the new
\* name, for a date the series held a valid row of under the old name.
C7_Witness ==
    /\ WasIncremental
    /\ merge_call.once = None
    /\ \E i \in DOMAIN merge_call.before.rows, k \in DOMAIN NewFiltered :
          /\ IsTraded(merge_call.before.rows[i])
          /\ NewFiltered[k].date.day = merge_call.before.rows[i].date.day
          /\ NewFiltered[k].name # merge_call.before.rows[i].name

\* C9: a merge of a batch whose rows are all invalid, with fetch_end_date given,
\* writes nothing to the series file (its rows, or its absence, stay) and
\* leaves fetch_end_date as the last date of the instrument; the metadata file
\* holds it too when it could be written.
C9_AllInvalidBatchSetsWatermark ==
    (/\ merge_call # None
     /\ NewFiltered = <<>>
     /\ merge_call.fetch_end_date # None)
        => /\ files[TheCode] = merge_call.before
           /\ Watermark = merge_call.fetch_end_date
           /\ merge_call.write_ok =>
                 DictGet(metadata_file, TheCode) = merge_call.fetch_end_date
           /\ merge_call.ret = [is_update |-> FALSE, new_count |-> 0,
                                removed_count |-> Len(merge_call.df_new)]

\* A batch of halted rows only was merged onto an existing series and the
\* metadata file took fetch_end_date, a date after the one it may have held.
C9_Witness ==
    /\ merge_call # None
    /\ merge_call.once = None
    /\ merge_call.df_new # <<>>
    /\ NewFiltered = <<>>
    /\ merge_call.before # Absent
    /\ merge_call.fetch_end_date = Ymd(MergeDays)
    /\ merge_call.write_ok
    /\ metadata_file # Absent
    /\ DictGet(metadata_file, TheCode) = Ymd(MergeDays)

\* C10: after a merge that persisted a non-empty filtered batch with
\* fetch_end_date given, the last date of the instrument is fetch_end_date,
\* whatever the largest date of the batch is.
C10_WatermarkIsRequestedEnd ==
    (/\ merge_call # None
     /\ NewFiltered # <<>>
     /\ merge_call.fetch_end_date # None)
        => /\ Watermark = merge_call.fetch_end_date
           /\ merge_call.write_ok =>
                 DictGet(metadata_file, TheCode) = merge_call.fetch_end_date

\* A batch was persisted whose largest date is before fetch_end_date.
C10_Witness ==
    /\ merge_call # None
    /\ merge_call.once = None
    /\ NewFiltered # <<>>
    /\ files[TheCode] # Absent
    /\ merge_call.fetch_end_date # None
    /\ MaxDateYmd(NewFiltered).day < merge_call.fetch_end_date.day
    /\ Watermark = merge_call.fetch_end_date


\* C30: after a merge of a batch with valid rows into no series file, or as a
\* full refresh, the series file holds exactly the valid rows of the batch, in
\* their order; no row of the file of before is left.
C30_FullRefreshReplacesSeries ==
    (/\ merge_call # None
     /\ NewFiltered # <<>>
     /\ (merge_call.before = Absent \/ merge_call.need_full_refresh))
        => /\ files[TheCode] # Absent
           /\ Len(files[TheCode].rows) = Len(NewFiltered)
           /\ \A k \in DOMAIN NewFiltered :
                 /\ files[TheCode].rows[k].date = Dash(NewFiltered[k].date.day)
                 /\ files[TheCode].rows[k].name = NewFiltered[k].name
                 /\ files[TheCode].rows[k].volume = NewFiltered[k].volume
                 /\ files[TheCode].rows[k].amount = NewFiltered[k].amount

\* C30 witness: a full refresh over a file that held a valid row of a day the
\* batch does not cover; the day is gone.
C30_Witness ==
    /\ merge_call # None
    /\ merge_call.need_full_refresh
    /\ NewFiltered # <<>>
    /\ merge_call.before # Absent
    /\ \E i \in DOMAIN merge_call.before.rows :
          /\ IsTraded(merge_call.before.rows[i])
          /\ \A k \in DOMAIN NewFiltered :
                NewFiltered[k].date.day # merge_call.before.rows[i].date.day
          /\ \A k \in DOMAIN files[TheCode].rows :
                files[TheCode].rows[k].date.day # merge_call.before.rows[i].date.day

\* C31: after a merge that wrote the series file (creation, incremental merge
\* or full refresh of a batch with valid rows), every row of the file has a
\* volume and an amount that are present and positive: the halted rows the file
\* held before an incremental merge are gone and no halted row of the batch
\* was written.
C31_PersistedRowsAreValid ==
    (/\ merge_call # None
     /\ NewFiltered # <<>>)
        => /\ files[TheCode] # Absent
           /\ \A j \in DOMAIN files[TheCode].rows : IsTraded(files[TheCode].rows[j])

\* C31 witness: an incremental merge of a batch holding a halted row and a
\* valid one, onto a file that held a halted row of another day.
C31_Witness ==
    /\ WasIncremental
    /\ merge_call.once = None
    /\ \E k \in DOMAIN merge_call.df_new : ~IsTraded(merge_call.df_new[k])
    /\ \E i \in DOMAIN merge_call.before.rows :
          /\ ~IsTraded(merge_call.before.rows[i])
          /\ \A k \in DOMAIN merge_call.df_new :
                merge_call.df_new[k].date.day # merge_call.before.rows[i].date.day
    /\ \A j \in DOMAIN files[TheCode].rows : IsTraded(files[TheCode].rows[j])

\* C32 (as stated): the is_update returned by a merge is true exactly when a
\* series file existed before the call, whatever need_full_refresh and the
\* batch are.
C32_IsUpdateIffSeriesExisted ==
    merge_call # None =>
        (merge_call.ret.is_update <=> merge_call.before # Absent)

\* ------------------------------------------------------------------ claims on the runs of the script
\* What get_last_date returns to a process started on the data directory.
PersistedWatermark(file) ==
    GetLastDate(LoadMetadata(Store(None, file)), TheCode)

\* C4 (as stated): over any sequence of runs the last date the store returns
\* for the instrument never decreases from one run to the next, and once set
\* it stays set.
C4_WatermarkNeverDecreases ==
    [][PersistedWatermark(metadata_file) # None =>
          /\ PersistedWatermark(metadata_file') # None
          /\ ToDatetime(PersistedWatermark(metadata_file')).day
                >= ToDatetime(PersistedWatermark(metadata_file)).day]_vars


\* The iteration ended without calling a provider.
NoFetchIssued(r) == r.outcome \in {"up_to_date", "no_session"}

\* C11 (as stated): after the fetch of a window ending at E ended as no data,
\* or as a batch filtered out entirely, and E was stored as the last date, a
\* following run in tail mode with the same end date E calls no provider for
\* the instrument, whether or not its series file exists.
C11_NoRefetchAfterEmptyWindow ==
    [][\A d \in Days, net \in Nets, ok \in BOOLEAN :
          (/\ run # None
           /\ run.outcome \in {"no_data", "all_invalid"}
           /\ run.fetch_end = Ymd(d)
           /\ PersistedWatermark(metadata_file) = Ymd(d)
           /\ RunScript(Ymd(d), "tail", net, ok))
              => NoFetchIssued(run')]_vars


\* C12: in one iteration of the loop the last date of the instrument is set to
\* fetch_end when the fetch ended as no data or returned a frame, and when the
\* fetch failed the metadata (file and value returned) and every series file
\* are left as they were, so that a later run resolves the same window.
C12_IterationWatermark ==
    [][run' # None =>
          /\ run'.outcome \in {"no_data", "all_invalid", "merged"} =>
                GetLastDate(Store(cache', metadata_file'), TheCode) = run'.fetch_end
          /\ run'.outcome = "failure" =>
                /\ files' = files
                /\ metadata_file' = metadata_file
                /\ GetLastDate(Store(cache', metadata_file'), TheCode)
                      = PersistedWatermark(metadata_file)]_vars

\* An iteration on an existing series with a last date stored ended with every
\* provider raising.
C12_Witness ==
    /\ run # None
    /\ run.outcome = "failure"
    /\ files[TheCode] # Absent
    /\ PersistedWatermark(metadata_file) # None

\* C13 (as stated): when no provider's upstream call can be answered, the
\* providers raise and the iteration never ends as no data.
C13_UpstreamFailureNeverNoData ==
    [][\A d \in Days, mode \in UpdateModes, ok \in BOOLEAN :
          (RunScript(Ymd(d), mode, "all_down", ok) \/ RunScript(Ymd(d), mode, "baostock_refused", ok))
              => run'.outcome # "no_data"]_vars


\* The new filtered batch of the merge made last is dated after every row the
\* series file held.
NewRowsAreLater ==
    \A i \in DOMAIN merge_call.before.rows, k \in DOMAIN NewFiltered :
        merge_call.before.rows[i].date.day < NewFiltered[k].date.day

\* C14: an incremental merge of a batch dated after all existing rows and
\* carrying another name leaves every valid row the series held as it was,
\* name included, and rewrites none; the rows appended are rows of the batch
\* and carry the new name.
C14_NameHistoryPreserved ==
    (WasIncremental /\ NewRowsAreLater) =>
        LET old == merge_call.before.rows
            now == files[TheCode].rows
            last_old == old[Len(old)].date.day
        IN  /\ \A i \in DOMAIN old : IsTraded(old[i]) => \E j \in DOMAIN now : now[j] = old[i]
            /\ \A j \in DOMAIN now :
                  IF now[j].date.day <= last_old
                  THEN \E i \in DOMAIN old : now[j] = old[i]
                  ELSE /\ now[j].name = merge_call.df_new[1].name
                       /\ \E k \in DOMAIN NewFiltered :
                             now[j] = [NewFiltered[k] EXCEPT !.date = now[j].date]
            /\ \A k \in DOMAIN NewFiltered :
                  \E j \in DOMAIN now : now[j].date.day = NewFiltered[k].date.day

\* A batch under the new name was appended to a series holding a valid row
\* under the old name, and the series holds both names.
C14_Witness ==
    /\ WasIncremental
    /\ NewRowsAreLater
    /\ merge_call.once = None
    /\ \E i \in DOMAIN merge_call.before.rows :
          /\ IsTraded(merge_call.before.rows[i])
          /\ merge_call.before.rows[i].name = "PingAn"
    /\ \E j \in DOMAIN files[TheCode].rows : files[TheCode].rows[j].name = "PingAn"
    /\ \E j \in DOMAIN files[TheCode].rows : files[TheCode].rows[j].name = "*ST_PingAn"

\* ------------------------------------------------------------------ claims on the resolver
\* The days on record in the series file of the instrument.
SeriesDays == {ReadCsv(files[TheCode])[i].date.day : i \in DOMAIN ReadCsv(files[TheCode])}

SeriesStart == CHOOSE d \in SeriesDays : \A o \in SeriesDays : d <= o

SeriesEnd == CHOOSE d \in SeriesDays : \A o \in SeriesDays : d >= o

\* The sessions of the window asked for that the series file does not hold.
MissingSessions ==
    {d \in resolve_call.start_date.day .. resolve_call.end_date.day :
        IsSession(d) /\ d \notin SeriesDays}

HeadGap == \E d \in MissingSessions : d < SeriesStart

TailGap == \E d \in MissingSessions : d > SeriesEnd

MiddleGap == \E d \in MissingSessions : SeriesStart < d /\ d < SeriesEnd

\* The day of the last date stored for the instrument, 0 when none is stored.
StoredDay ==
    IF metadata_file = Absent \/ DictGet(metadata_file, TheCode) = None THEN 0
    ELSE DictGet(metadata_file, TheCode).day

\* The result asks for the window from day a to day b with the refresh flag.
AsksFor(a, b, refresh) ==
    /\ resolve_call.result.need_update = TRUE
    /\ resolve_call.result.fetch_start = Ymd(a)
    /\ resolve_call.result.fetch_end = Ymd(b)
    /\ resolve_call.result.need_full_refresh = refresh

AsksNothing == resolve_call.result.need_update = FALSE

\* C15: without a series file the result is (need_update true, start, end,
\* no full refresh, no missing-date list), whatever the mode and the metadata.
C15_NoFileFetchesWholeWindow ==
    (resolve_call # None /\ files[TheCode] = Absent) =>
        resolve_call.result =
            [need_full_refresh |-> FALSE, need_update |-> TRUE,
             fetch_start |-> resolve_call.start_date, fetch_end |-> resolve_call.end_date,
             missing_dates_list |-> None]

C15_Witness ==
    /\ resolve_call # None
    /\ files[TheCode] = Absent
    /\ resolve_call.update_mode = "tail"
    /\ StoredDay >= resolve_call.end_date.day
    /\ resolve_call.result.need_update = TRUE

C18_FullModeMiddleGapRefreshes ==
    (/\ resolve_call # None
     /\ files[TheCode] # Absent
     /\ resolve_call.update_mode = "full"
     /\ MiddleGap)
        => AsksFor(resolve_call.start_date.day, resolve_call.end_date.day, TRUE)

C18_Witness ==
    /\ resolve_call # None
    /\ files[TheCode] # Absent
    /\ resolve_call.update_mode = "full"
    /\ MiddleGap /\ ~HeadGap /\ ~TailGap
    /\ resolve_call.result.need_full_refresh = TRUE

\* C19: in head_tail mode a head gap alone gives [start, series_start - 1], a
\* tail gap alone gives [series_end + 1, end], both without full refresh; both
\* together give [start, end] with a full refresh; a middle gap alone gives no
\* update.
C19_HeadTailCases ==
    (resolve_call # None /\ files[TheCode] # Absent /\ resolve_call.update_mode = "head_tail") =>
        /\ (HeadGap /\ ~TailGap) =>
                AsksFor(resolve_call.start_date.day, SeriesStart - 1, FALSE)
        /\ (TailGap /\ ~HeadGap) =>
                AsksFor(SeriesEnd + 1, resolve_call.end_date.day, FALSE)
        /\ (HeadGap /\ TailGap) =>
                AsksFor(resolve_call.start_date.day, resolve_call.end_date.day, TRUE)
        /\ (~HeadGap /\ ~TailGap) => AsksNothing

C19_Witness ==
    /\ resolve_call # None
    /\ files[TheCode] # Absent
    /\ resolve_call.update_mode = "head_tail"
    /\ MiddleGap /\ ~HeadGap /\ ~TailGap
    /\ AsksNothing

\* ------------------------------------------------------------------ claims on the store
\* Every attempt of the call to write the metadata file failed.
AllAttemptsFailed(call) == \A i \in DOMAIN call.attempts : ~call.attempts[i]

\* C20: when every attempt to write the metadata file fails, update_last_date,
\* batch_update and remove_stock raise nothing and leave the file as it was,
\* the cache holds what was just set or removed, and every later get_last_date
\* returns the value of the cache, which no get changes, not that of the file.
C20_FailedSaveKeepsCacheAuthoritative ==
    [][/\ (store_call'.op \in {"set", "batch_set", "remove"} /\ AllAttemptsFailed(store_call')) =>
            /\ store_call'.raised = FALSE
            /\ metadata_file' = metadata_file
            /\ \A c \in DOMAIN store_call'.updates :
                    DictGet(cache', c) = store_call'.updates[c]
            /\ \A c \in store_call'.removed : DictGet(cache', c) = None
       /\ store_call'.op = "get" =>
            /\ store_call'.returned = DictGet(cache', store_call'.stock_code)
            /\ cache # None =>
                    /\ cache' = cache
                    /\ store_call'.returned = DictGet(cache, store_call'.stock_code)]_vars

C20_Witness ==
    /\ store_call # None
    /\ store_call.op = "get"
    /\ metadata_file # Absent
    /\ store_call.returned # None
    /\ DictGet(metadata_file, store_call.stock_code) # None
    /\ store_call.returned # DictGet(metadata_file, store_call.stock_code)

\* ------------------------------------------------------------------ claims on the missing-date list
\* C28 (as stated): on the full analysis path (full and head_tail mode with a
\* series file) the result carries the formatted list of the sessions of
\* [start, end] the series lacks, also when need_update is false.  A result
\* without update carries None in place of the list (lines 191, 205, 215).
C28_MissingListAlwaysReturned ==
    (/\ resolve_call # None
     /\ files[TheCode] # Absent
     /\ SeriesDays # {}
     /\ resolve_call.update_mode \in {"full", "head_tail"}
     /\ MissingSessions # {})
        => /\ resolve_call.result.need_update
           /\ resolve_call.result.missing_dates_list =
                 [i \in 1 .. Cardinality(MissingSessions) |->
                     Dash(SortedDays(MissingSessions)[i])]

\* ------------------------------------------------------------------ claims on a malformed series
\* C27 (as stated): with a series file whose read raises, the resolver asks
\* for the whole window [start, end], and a run that fetches rows ends with the
\* fetched data in place of the malformed file, never with a failure recorded
\* for the instrument.
C27_MalformedSeriesRefetched ==
    /\ [](resolve_call # None /\ files[TheCode] = Malformed
            => resolve_call.result =
                  Update(resolve_call.start_date, resolve_call.end_date, FALSE, None))
    /\ [][\A d \in Days, mode \in UpdateModes, net \in Nets, ok \in BOOLEAN :
            (files[TheCode] = Malformed /\ RunScript(Ymd(d), mode, net, ok))
                => /\ run'.outcome # "error"
                   /\ run'.outcome \in {"merged", "all_invalid"}
                          => files'[TheCode] # Malformed]_vars

\* ------------------------------------------------------------------ claims on rebuild_from_files
\* The map rebuild_from_files is to leave: the codes given that have a series
\* with rows, each with the latest date of its series.
RebuiltMap ==
    LET given == {store_call.stock_codes[i] : i \in DOMAIN store_call.stock_codes}
    IN  [c \in {g \in given : HasSeries(files, g)} |-> MaxDateYmd(ReadCsv(files[c]))]

\* C24 (as stated): after rebuild(codes) the map of the store is exactly
\* RebuiltMap, every earlier entry gone, and the count returned is its size,
\* also when no code given has a series.
C24_RebuildReplacesMap ==
    (store_call # None /\ store_call.op = "rebuild")
        => /\ LoadMetadata(Store(cache, metadata_file)).cache = RebuiltMap
           /\ store_call.returned = Cardinality(DOMAIN RebuiltMap)

\* ------------------------------------------------------------------ claims on the metadata file
\* C21: .metadata.json never holds a mapping cut short, whatever fails and
\* wherever a process is stopped; every content it gets is the whole mapping
\* handed to the call of _save_metadata that is putting it in place, and a
\* failing or stopped attempt leaves the file as it was.
C21_CanonicalNeverPartial ==
    /\ [](metadata_file # Torn)
    /\ [][metadata_file' # metadata_file
            => \E p \in Pids : /\ procs[p].pc = "replace"
                               /\ procs'[p].pc = "idle"
                               /\ metadata_file' = procs[p].cache]_vars

\* A process was stopped while its temporary file was cut short: the file is
\* left behind, and .metadata.json holds a whole mapping put there before.
C21_Witness ==
    /\ \E n \in TempNames : temp_files[n] = Torn
    /\ \A p \in Pids : procs[p].pc = "idle"
    /\ \E p \in Pids : procs[p].saved # None /\ metadata_file = procs[p].saved

\* C23: once one of the two processes has put a mapping in place,
\* .metadata.json is, in every interleaving, the whole mapping one of them
\* last put in place, as that process had it in its cache.
C23_LastWriterWins ==
    (\E p \in Pids : procs[p].saved # None)
        => \E p \in Pids : procs[p].saved # None /\ metadata_file = procs[p].saved

\* A lost update: both processes have saved, and a code the first one stored
\* is no longer in .metadata.json, which holds the stale mapping of the second.
C23_Witness ==
    /\ \A p \in Pids : procs[p].pc = "idle" /\ procs[p].saved # None
    /\ metadata_file = procs[2].saved
    /\ \E c \in DOMAIN procs[1].saved : c \notin DOMAIN metadata_file

\* ------------------------------------------------------------------ claims on the series file
\* C22 (as stated): a merge that is interrupted leaves the series file of the
\* instrument absent, or as it was before the merge, or as the merge would
\* have left it; never with a part of the rows.
C22_SeriesNeverPartial ==
    (writer # None /\ writer.pc = "interrupted")
        => files[TheCode] \in {Absent, writer.before, writer.after}

\* ------------------------------------------------------------------ claims on the batch run
\* C25: an iteration that ends in an error (all sources failed, or an
\* exception of any kind) appends its instrument to failed_stocks and the loop
\* goes on with the next row; unless the user interrupts, every row of the
\* stock list is processed in the end.
C25_FailuresNeverAbortRun ==
    /\ [][(batch.pc = "loop" /\ batch'.fail_count > batch.fail_count)
            => /\ batch'.failed_stocks = Append(batch.failed_stocks, BatchList[batch.idx])
               /\ batch'.pc = "loop"
               /\ batch'.idx = batch.idx + 1]_vars
    /\ [](batch.pc \in {"loop", "done", "interrupted"})
    /\ [](Len(batch.failed_stocks) = batch.fail_count)
    /\ <>(batch.pc = "interrupted" \/ (batch.pc = "done" /\ batch.processed = BatchList))

\* The first row failed and is in the list; the second was processed and the
\* run came to its end.
C25_Witness ==
    /\ batch.pc = "done"
    /\ batch.failed_stocks = <<BatchList[1]>>
    /\ batch.processed = BatchList

\* ------------------------------------------------------------------ claims on the scope of the fetcher
\* C26: however the with block of the MultiSourceFetcher is left (end of the
\* loop, interrupt, exception), afterwards no baostock session is open and the
\* fetcher is not logged in; a session that was open was closed by one logout;
\* an exception that left the block is still raised.
C26_LogoutOnEveryExit ==
    /\ [](session.pc = "exited"
            => /\ ~session.open
               /\ ~session.is_logged_in
               /\ session.propagated = session.exc)
    /\ [][(session.pc = "inside" /\ session'.pc = "exited" /\ session.open)
            => session'.logouts = session.logouts + 1]_vars

\* An exception left the block while the session was open: the session was
\* closed and the exception went on.
C26_Witness ==
    /\ session.pc = "exited"
    /\ session.logouts = 1
    /\ session.propagated = "Exception"

\* ------------------------------------------------------------------ claims on the format of the last dates
\* The values of a dict of last dates are strings of the form YYYYMMDD.
AllYmd(dict) == \A k \in DOMAIN dict : dict[k].fmt = YmdFmt

\* C33 (as stated): every value of the map of last dates, in .metadata.json
\* and in the cache of the core, is a YYYYMMDD string after any sequence of
\* merges and of runs of the maintenance tools.
C33_WatermarksAreYmd ==
    /\ (metadata_file # Absent => AllYmd(metadata_file))
    /\ (cache # None => AllYmd(cache))

\* ------------------------------------------------------------------ claims on a call of _save_metadata
\* The delays slept before attempt n of a call: 0.1 s, then 0.2 s.
DelaysBefore(n) == SubSeq(<<InitialDelay, 2 * InitialDelay>>, 1, n - 1)

C35_UpToDateChangesNothing ==
    [][(run' # None /\ run'.outcome = "up_to_date") =>
          /\ files' = files
          /\ metadata_file' = metadata_file
          /\ GetLastDate(Store(cache', metadata_file'), TheCode)
                = PersistedWatermark(metadata_file)
          /\ run'.calls = <<>>
          /\ source_stats' = ZeroStats]_vars

\* C35 witness: a run found the instrument up to date while the last date
\* stored is later than the last row of its series.
C35_Witness ==
    /\ run # None
    /\ run.outcome = "up_to_date"
    /\ files[TheCode] # Absent
    /\ PersistedWatermark(metadata_file) # None
    /\ PersistedWatermark(metadata_file).day > MaxDateYmd(ReadCsv(files[TheCode])).day

\* ------------------------------------------------------------------ claims on the life of a series file
\* The file holds a series: it exists, can be read and has rows.
HoldsSeries(file) ==
    IF file = Absent \/ file = Malformed THEN FALSE ELSE ReadCsv(file) # <<>>

\* C36 (as stated): a series file that held rows when an operation of the core
\* began holds rows when the operation is over, whether it returned or was
\* stopped; it is neither deleted nor emptied.
C36_SeriesNeverEmptied ==
    (/\ writer # None
     /\ writer.pc \in {"closed", "interrupted"}
     /\ HoldsSeries(writer.before))
        => HoldsSeries(files[TheCode])

\* ------------------------------------------------------------------ claims on a run stopped inside a merge
\* What get_missing_date_range returns to a run in tail mode with the end date
\* of the run that was stopped.
ResolvedAgain ==
    GetMissingDateRange(files[TheCode], TheCode, Ymd(START_DATE), resolve_call.end_date,
                        "tail", LoadMetadata(Store(None, metadata_file)))

\* The run made last was stopped inside its merge.
WasInterrupted == run # None /\ run.outcome = "interrupted"

HadSeriesAndEntry ==
    /\ merge_call.before[1] # Absent
    /\ PersistedWatermark(merge_call.before[2]) # None

C38_WatermarkCoversSeries ==
    (HoldsSeries(files[TheCode]) /\ Watermark # None)
        => ToDatetime(Watermark).day >= MaxDateYmd(ReadCsv(files[TheCode])).day

\* ------------------------------------------------------------------ claims on the form of the resolver's result
\* C39 (as stated): for every series file, metadata file, mode and window
\* with start_date <= end_date, a result with need_update has
\* start_date <= fetch_start <= fetch_end <= end_date, and a result without
\* has no fetch_start, no fetch_end and no full refresh.
C39_ResultWellFormed ==
    resolve_call # None =>
        LET r == resolve_call.result
        IN  IF r.need_update
            THEN /\ resolve_call.start_date.day <= r.fetch_start.day
                 /\ r.fetch_start.day <= r.fetch_end.day
                 /\ r.fetch_end.day <= resolve_call.end_date.day
            ELSE /\ r.fetch_start = None
                 /\ r.fetch_end = None
                 /\ ~r.need_full_refresh

\* ------------------------------------------------------------------ claims on the rows of the providers
\* The instrument traded on a day of the window.
TradedIn(fetch_start, fetch_end) ==
    \E d \in fetch_start.day .. fetch_end.day : d \in DOMAIN market /\ market[d] = "traded"

\* C40 (as stated): whichever provider answers, a run that obtained a frame
\* for a window in which the instrument traded ends in a merge that writes,
\* and the series holds rows afterwards.
C40_TradedWindowPersisted ==
    [][\A d \in Days, mode \in UpdateModes, net \in {"up", "all_down"} :
          LET r == GetMissingDateRange(files[TheCode], TheCode, Ymd(START_DATE), Ymd(d),
                                       mode, LoadMetadata(Store(None, metadata_file)))
          IN  (/\ RunScript(Ymd(d), mode, net, TRUE)
               /\ run'.outcome \in {"merged", "all_invalid"}
               /\ TradedIn(r.fetch_start, r.fetch_end))
                  => /\ run'.outcome = "merged"
                     /\ HoldsSeries(files'[TheCode])]_vars
====
